---- MODULE Spec2Model ----
(***************************************************************************)
(* State-machine model of the Convex backend of the to-do application:     *)
(* the record access layer (convex/db/*.ts), the validation helpers        *)
(* (convex/helpers/validation.ts) and the endpoint layer                   *)
(* (convex/endpoints/*.ts).                                                *)
(*                                                                         *)
(* Every endpoint handler is a pure operator from the store, the clock,    *)
(* the caller, the rate limiter's answer and the arguments to an outcome   *)
(* (the new store, the error raised, the phases the handler went through). *)
(* One action per endpoint applies the outcome; a mutation is one          *)
(* transaction, so an outcome that carries an error commits no write.      *)
(*                                                                         *)
(* Abstractions: a string is its length and whether it trims to nothing;   *)
(* an optional value is a sequence of length 0 or 1; document ids are      *)
(* natural numbers handed out in insertion order and never reused;         *)
(* createdAt is left out of the records (insertion order stands for it).   *)
(***************************************************************************)
EXTENDS Integers, Sequences, FiniteSets, TLC

VARIABLES tasks, taskActivity, taskComments, threads, messages,
          userPreferences, nextId, now, chatRun, last

tables == <<tasks, taskActivity, taskComments, threads, messages, userPreferences>>
vars == <<tasks, taskActivity, taskComments, threads, messages,
          userPreferences, nextId, now, chatRun, last>>

----------------------------------------------------------------------------
(* Bounds of the model *)

MaxIds == 3
MaxActivity == 3
MaxTime == 2

----------------------------------------------------------------------------
(* Values *)

Users == {"u1", "u2"}
NoUser == "anonymous"
Callers == Users \cup {NoUser}

None == <<>>
Some(v) == <<v>>

Str(n, b) == [len |-> n, blank |-> b]

TaskStatus == {"pending", "in_progress", "completed"}
TaskPriority == {"low", "medium", "high"}

OK == "ok"
Unauthenticated == "Not authenticated"
RateLimited == "Rate limit exceeded"
NotFound == "Not found"
Unauthorized == "Not authorized"
ValidationFailed == "Validation failed"

NoBucket == "none"

Allow == [ok |-> TRUE, retryAfter |-> 0]
Deny(ms) == [ok |-> FALSE, retryAfter |-> ms]

Range(s) == {s[i] : i \in DOMAIN s}

RECURSIVE SetMax(_)
SetMax(S) ==
  LET x == CHOOSE y \in S : TRUE
  IN IF S = {x} THEN x
     ELSE LET m == SetMax(S \ {x}) IN IF x > m THEN x ELSE m

\* ids in descending order: the order of .order("desc") on insertion order
RECURSIVE Desc(_)
Desc(S) == IF S = {} THEN <<>> ELSE LET m == SetMax(S) IN <<m>> \o Desc(S \ {m})

Rev(s) == [i \in 1..Len(s) |-> s[Len(s) + 1 - i]]

Asc(S) == Rev(Desc(S))

Take(s, n) == IF Len(s) <= n THEN s ELSE SubSeq(s, 1, n)

----------------------------------------------------------------------------
(* The store handed to a handler, and what a handler hands back *)

Store ==
  [tasks |-> tasks, taskActivity |-> taskActivity, taskComments |-> taskComments,
   threads |-> threads, messages |-> messages,
   userPreferences |-> userPreferences, nextId |-> nextId]

Insert(table, id, doc) == [i \in DOMAIN table \cup {id} |-> IF i = id THEN doc ELSE table[i]]

Delete(table, ids) == [i \in DOMAIN table \ ids |-> table[i]]

Throw(s, kind, msg, steps, bucket) ==
  [db |-> s, err |-> kind, msg |-> msg, steps |-> steps, bucket |-> bucket,
   result |-> <<>>]

Return(s, value, steps, bucket) ==
  [db |-> s, err |-> OK, msg |-> <<>>, steps |-> steps, bucket |-> bucket,
   result |-> value]

RateLimitMessage(rl) == <<"Rate limit exceeded. Retry after ms", rl.retryAfter>>

----------------------------------------------------------------------------
(* helpers/validation.ts *)

isValidTaskTitle(title) == ~title.blank /\ title.len <= 200

isValidTaskDescription(description) ==
  IF description = None \/ description[1].len = 0 THEN TRUE
  ELSE description[1].len <= 2000

isValidDueDate(dueDate, t) == ~(dueDate < t)

isValidTaskTags(tags) ==
  IF tags = None THEN TRUE
  ELSE IF Len(tags[1]) > 10 THEN FALSE
  ELSE \A i \in 1..Len(tags[1]) : ~tags[1][i].blank /\ tags[1][i].len <= 50

isValidCommentContent(content) == ~content.blank /\ content.len <= 1000

isValidMessageContent(content) == ~content.blank /\ content.len <= 10000

isValidThreadTitle(title) == title.len <= 100

validateTaskInput(input, t) ==
  (IF ~isValidTaskTitle(input.title)
     THEN <<"Title must be between 1 and 200 characters">> ELSE <<>>)
  \o (IF ~isValidTaskDescription(input.description)
        THEN <<"Description must be max 2000 characters">> ELSE <<>>)
  \o (IF input.dueDate # None /\ input.dueDate[1] # 0
           /\ ~isValidDueDate(input.dueDate[1], t)
        THEN <<"Due date must be in the future">> ELSE <<>>)
  \o (IF ~isValidTaskTags(input.tags)
        THEN <<"Tags must be max 50 characters each, max 10 tags">> ELSE <<>>)

----------------------------------------------------------------------------
(* db/tasks.ts *)

createTask(s, t, args) ==
  [s EXCEPT
     !.tasks = Insert(@, s.nextId,
                 [userId |-> args.userId, title |-> args.title,
                  description |-> args.description,
                  status |-> "pending",
                  priority |-> IF args.priority = None THEN "medium" ELSE args.priority[1],
                  dueDate |-> args.dueDate, completedAt |-> None,
                  position |-> args.position, tags |-> args.tags,
                  updatedAt |-> t]),
     !.nextId = @ + 1]

getTasksByUser(s, userId) ==
  Desc({i \in DOMAIN s.tasks : s.tasks[i].userId = userId})

getTasksByUserAndStatus(s, userId, status) ==
  Desc({i \in DOMAIN s.tasks :
          s.tasks[i].userId = userId /\ s.tasks[i].status = status})

\* a variant that counts the tasks of every user
getTaskCountByUserAndStatus_allUsers(s, userId, status) ==
  Cardinality({i \in DOMAIN s.tasks : s.tasks[i].status = status})

getTaskCountByUserAndStatus(s, userId, status) ==
  Len(getTasksByUserAndStatus(s, userId, status))

getOverdueTasksByUser(s, userId, currentTime) ==
  LET all == getTasksByUser(s, userId)
  IN SelectSeq(all, LAMBDA i :
       /\ s.tasks[i].dueDate # None
       /\ s.tasks[i].dueDate[1] # 0
       /\ s.tasks[i].dueDate[1] < currentTime
       /\ s.tasks[i].status # "completed")

\* a variant that forgets the by_user index and scans the whole table
getMaxPositionForUser_allUsers(s, userId) ==
  IF DOMAIN s.tasks = {} THEN 0
  ELSE SetMax({s.tasks[i].position : i \in DOMAIN s.tasks})

\* a variant that never finds a task of the user
getMaxPositionForUser_none(s, userId) == 0

getMaxPositionForUser(s, userId) ==
  LET ts == getTasksByUser(s, userId)
  IN IF Len(ts) = 0 THEN 0
     ELSE SetMax({s.tasks[ts[i]].position : i \in 1..Len(ts)})

\* ctx.db.patch: the fields the patch supplies replace the stored ones
PatchTask(task, p) ==
  [task EXCEPT
     !.title = IF p.title = None THEN @ ELSE p.title[1],
     !.description = IF p.description = None THEN @ ELSE p.description,
     !.status = IF p.status = None THEN @ ELSE p.status[1],
     !.priority = IF p.priority = None THEN @ ELSE p.priority[1],
     !.dueDate = IF p.dueDate = None THEN @ ELSE p.dueDate,
     !.tags = IF p.tags = None THEN @ ELSE p.tags,
     !.completedAt = IF p.completedAt = None THEN @ ELSE p.completedAt]

updateTask(s, t, id, p) ==
  [s EXCEPT !.tasks[id] = [PatchTask(@, p) EXCEPT !.updatedAt = t]]

\* a variant that keeps the completedAt of a task completed before
completeTask_once(s, t, id) ==
  [s EXCEPT !.tasks[id] =
     [@ EXCEPT !.status = "completed",
               !.completedAt = IF @ = None THEN Some(t) ELSE @,
               !.updatedAt = t]]

completeTask(s, t, id) ==
  [s EXCEPT !.tasks[id] =
     [@ EXCEPT !.status = "completed", !.completedAt = Some(t), !.updatedAt = t]]

deleteTask(s, id) == [s EXCEPT !.tasks = Delete(@, {id})]

\* a variant that deletes the completed tasks of every user
deleteCompletedTasksByUser_allUsers(s, userId) ==
  LET completedTasks == getTasksByUserAndStatus(s, userId, "completed")
  IN [db |-> [s EXCEPT !.tasks =
                 Delete(@, {i \in DOMAIN s.tasks : s.tasks[i].status = "completed"})],
      count |-> Len(completedTasks)]

deleteCompletedTasksByUser(s, userId) ==
  LET completedTasks == getTasksByUserAndStatus(s, userId, "completed")
  IN [db |-> [s EXCEPT !.tasks = Delete(@, Range(completedTasks))],
      count |-> Len(completedTasks)]

----------------------------------------------------------------------------
(* db/taskActivity.ts *)

\* a variant that writes over the newest record instead of appending
createTaskActivity_overwrite(s, args) ==
  [s EXCEPT !.taskActivity =
     IF @ = <<>> THEN <<args>> ELSE [@ EXCEPT ![Len(@)] = args]]

createTaskActivity(s, args) ==
  [s EXCEPT !.taskActivity = Append(@, args)]

Activity(taskId, userId, action, changes) ==
  [taskId |-> taskId, userId |-> userId, action |-> action, changes |-> changes]

\* positions in the log, newest first
getTaskActivityByTaskAndTime(s, taskId, limit) ==
  LET all == Rev(SelectSeq([i \in 1..Len(s.taskActivity) |-> i],
                           LAMBDA i : s.taskActivity[i].taskId = taskId))
  IN IF limit # None /\ limit[1] # 0 THEN Take(all, limit[1]) ELSE all

getRecentActivityByUser(s, userId, limit) ==
  Take(Rev(SelectSeq([i \in 1..Len(s.taskActivity) |-> i],
                     LAMBDA i : s.taskActivity[i].userId = userId)), limit)

----------------------------------------------------------------------------
(* endpoints/tasks.ts: mutations *)

tasks_create(s, t, caller, rl, args) ==
  IF caller = NoUser
    THEN Throw(s, Unauthenticated, <<"Not authenticated">>, <<"auth">>, NoBucket)
  ELSE IF ~rl.ok
    THEN Throw(s, RateLimited, RateLimitMessage(rl), <<"auth", "limit">>, "createTask")
  ELSE LET errors == validateTaskInput(
                       [title |-> args.title, description |-> args.description,
                        dueDate |-> args.dueDate, tags |-> args.tags], t)
       IN IF errors # <<>>
            THEN Throw(s, ValidationFailed, errors,
                       <<"auth", "limit", "validate">>, "createTask")
          ELSE LET maxPosition == getMaxPositionForUser(s, caller)
                   taskId == s.nextId
                   s1 == createTask(s, t,
                           [userId |-> caller, title |-> args.title,
                            description |-> args.description,
                            priority |-> args.priority, dueDate |-> args.dueDate,
                            tags |-> args.tags, position |-> maxPosition + 1])
                   s2 == createTaskActivity(s1, Activity(taskId, caller, "created", None))
               IN Return(s2, taskId,
                         <<"auth", "limit", "validate", "query", "insert", "log">>,
                         "createTask")

\* JavaScript truthiness of the optional arguments
Truthy(opt) == opt # None /\ opt[1].len > 0
TruthyNum(opt) == opt # None /\ opt[1] # 0

\* what the update changes, for the activity log
TrackChanges(task, args) ==
  [status |-> IF args.status # None /\ args.status[1] # task.status
                THEN Some([from |-> task.status, to |-> args.status[1]]) ELSE None,
   priority |-> IF args.priority # None /\ args.priority[1] # task.priority
                  THEN Some([from |-> task.priority, to |-> args.priority[1]]) ELSE None]

\* the patch: the arguments but the id, and completedAt when the task gets completed
UpdateData(task, args, t) ==
  [title |-> args.title, description |-> args.description,
   status |-> args.status, priority |-> args.priority,
   dueDate |-> args.dueDate, tags |-> args.tags,
   completedAt |-> IF args.status = Some("completed") /\ task.status # "completed"
                     THEN Some(t) ELSE None]

\* a variant that looks at the priority change before the status change
UpdateActivity_priorityFirst(id, caller, args, changes) ==
  IF changes.priority # None
    THEN Activity(id, caller, "priority_changed", changes.priority)
  ELSE IF args.status = Some("completed")
    THEN Activity(id, caller, "completed", None)
  ELSE IF changes.status # None
    THEN Activity(id, caller, "status_changed", changes.status)
  ELSE Activity(id, caller, "updated", None)

UpdateActivity(id, caller, args, changes) ==
  IF args.status = Some("completed")
    THEN Activity(id, caller, "completed", None)
  ELSE IF changes.status # None
    THEN Activity(id, caller, "status_changed", changes.status)
  ELSE IF changes.priority # None
    THEN Activity(id, caller, "priority_changed", changes.priority)
  ELSE Activity(id, caller, "updated", None)

tasks_update(s, t, caller, rl, args) ==
  IF caller = NoUser
    THEN Throw(s, Unauthenticated, <<"Not authenticated">>, <<"auth">>, NoBucket)
  ELSE IF ~rl.ok
    THEN Throw(s, RateLimited, RateLimitMessage(rl), <<"auth", "limit">>, "updateTask")
  ELSE IF args.id \notin DOMAIN s.tasks
    THEN Throw(s, NotFound, <<"Task not found">>, <<"auth", "limit", "get">>, "updateTask")
  ELSE IF s.tasks[args.id].userId # caller
    THEN Throw(s, Unauthorized, <<"Not authorized to update this task">>,
               <<"auth", "limit", "get">>, "updateTask")
  ELSE
    LET task == s.tasks[args.id]
        validates == Truthy(args.title) \/ Truthy(args.description)
                       \/ TruthyNum(args.dueDate) \/ args.tags # None
        errors == IF validates
                    THEN validateTaskInput(
                           [title |-> IF Truthy(args.title) THEN args.title[1] ELSE task.title,
                            description |-> args.description,
                            dueDate |-> args.dueDate, tags |-> args.tags], t)
                    ELSE <<>>
        changes == TrackChanges(task, args)
        s1 == updateTask(s, t, args.id, UpdateData(task, args, t))
        s2 == createTaskActivity(s1, UpdateActivity(args.id, caller, args, changes))
    IN IF errors # <<>>
         THEN Throw(s, ValidationFailed, errors,
                    <<"auth", "limit", "get", "validate">>, "updateTask")
       ELSE Return(s2, args.id,
                   <<"auth", "limit", "get">>
                     \o (IF validates THEN <<"validate">> ELSE <<>>)
                     \o <<"patch", "log">>,
                   "updateTask")

tasks_complete(s, t, caller, rl, args) ==
  IF caller = NoUser
    THEN Throw(s, Unauthenticated, <<"Not authenticated">>, <<"auth">>, NoBucket)
  ELSE IF ~rl.ok
    THEN Throw(s, RateLimited, RateLimitMessage(rl), <<"auth", "limit">>, "updateTask")
  ELSE IF args.id \notin DOMAIN s.tasks
    THEN Throw(s, NotFound, <<"Task not found">>, <<"auth", "limit", "get">>, "updateTask")
  ELSE IF s.tasks[args.id].userId # caller
    THEN Throw(s, Unauthorized, <<"Not authorized to complete this task">>,
               <<"auth", "limit", "get">>, "updateTask")
  ELSE LET s1 == completeTask(s, t, args.id)
           s2 == createTaskActivity(s1, Activity(args.id, caller, "completed", None))
       IN Return(s2, args.id, <<"auth", "limit", "get", "patch", "log">>, "updateTask")

\* the first entry of the batch that names a missing task or another user's task
\* a variant that verifies the first entry of the batch only
FirstBad_firstOnly(s, caller, updates, i) ==
  IF i > Len(updates) THEN 0
  ELSE IF updates[i].id \notin DOMAIN s.tasks
            \/ s.tasks[updates[i].id].userId # caller THEN i
  ELSE 0

RECURSIVE FirstBad(_, _, _, _)
FirstBad(s, caller, updates, i) ==
  IF i > Len(updates) THEN 0
  ELSE IF updates[i].id \notin DOMAIN s.tasks
            \/ s.tasks[updates[i].id].userId # caller THEN i
  ELSE FirstBad(s, caller, updates, i + 1)

\* ctx.db.patch of each entry in the order `order` settles them
RECURSIVE PatchPositions(_, _, _, _)
PatchPositions(s, t, updates, order) ==
  IF order = <<>> THEN s
  ELSE LET u == updates[Head(order)]
       IN PatchPositions(
            [s EXCEPT !.tasks[u.id] = [@ EXCEPT !.position = u.position, !.updatedAt = t]],
            t, updates, Tail(order))

Perms(n) == {p \in [1..n -> 1..n] : \A i, j \in 1..n : p[i] = p[j] => i = j}

\* a variant that settles the first patch of the batch only
batchUpdateTaskPositions_firstOnly(s, t, updates) ==
  IF updates = <<>> THEN {s} ELSE {PatchPositions(s, t, updates, <<1>>)}

\* Promise.all over the patches: the set of stores the batch can leave
batchUpdateTaskPositions(s, t, updates) ==
  {PatchPositions(s, t, updates, p) : p \in Perms(Len(updates))}

\* a variant that writes an 'updated' record for the first task of the batch
tasks_reorder_logged(s, t, caller, rl, args, s2) ==
  IF caller = NoUser
    THEN Throw(s, Unauthenticated, <<"Not authenticated">>, <<"auth">>, NoBucket)
  ELSE IF ~rl.ok
    THEN Throw(s, RateLimited, RateLimitMessage(rl), <<"auth", "limit">>,
               "batchUpdatePositions")
  ELSE LET bad == FirstBad(s, caller, args.updates, 1)
           gets == [i \in 1..(IF bad = 0 THEN Len(args.updates) ELSE bad) |-> "get"]
       IN IF bad # 0 /\ args.updates[bad].id \notin DOMAIN s.tasks
            THEN Throw(s, NotFound, <<"Task not found", args.updates[bad].id>>,
                       <<"auth", "limit">> \o gets, "batchUpdatePositions")
          ELSE IF bad # 0
            THEN Throw(s, Unauthorized, <<"Not authorized to reorder task", args.updates[bad].id>>,
                       <<"auth", "limit">> \o gets, "batchUpdatePositions")
          ELSE Return(createTaskActivity(s2,
                        Activity(args.updates[1].id, caller, "updated", None)),
                      [success |-> TRUE],
                      <<"auth", "limit">> \o gets
                        \o [i \in 1..Len(args.updates) |-> "patch"],
                      "batchUpdatePositions")

tasks_reorder(s, t, caller, rl, args, s2) ==
  IF caller = NoUser
    THEN Throw(s, Unauthenticated, <<"Not authenticated">>, <<"auth">>, NoBucket)
  ELSE IF ~rl.ok
    THEN Throw(s, RateLimited, RateLimitMessage(rl), <<"auth", "limit">>,
               "batchUpdatePositions")
  ELSE LET bad == FirstBad(s, caller, args.updates, 1)
           gets == [i \in 1..(IF bad = 0 THEN Len(args.updates) ELSE bad) |-> "get"]
       IN IF bad # 0 /\ args.updates[bad].id \notin DOMAIN s.tasks
            THEN Throw(s, NotFound, <<"Task not found", args.updates[bad].id>>,
                       <<"auth", "limit">> \o gets, "batchUpdatePositions")
          ELSE IF bad # 0
            THEN Throw(s, Unauthorized, <<"Not authorized to reorder task", args.updates[bad].id>>,
                       <<"auth", "limit">> \o gets, "batchUpdatePositions")
          ELSE Return(s2, [success |-> TRUE],
                      <<"auth", "limit">> \o gets
                        \o [i \in 1..Len(args.updates) |-> "patch"],
                      "batchUpdatePositions")

tasks_remove(s, t, caller, rl, args) ==
  IF caller = NoUser
    THEN Throw(s, Unauthenticated, <<"Not authenticated">>, <<"auth">>, NoBucket)
  ELSE IF ~rl.ok
    THEN Throw(s, RateLimited, RateLimitMessage(rl), <<"auth", "limit">>, "deleteTask")
  ELSE IF args.id \notin DOMAIN s.tasks
    THEN Throw(s, NotFound, <<"Task not found">>, <<"auth", "limit", "get">>, "deleteTask")
  ELSE IF s.tasks[args.id].userId # caller
    THEN Throw(s, Unauthorized, <<"Not authorized to delete this task">>,
               <<"auth", "limit", "get">>, "deleteTask")
  ELSE LET s1 == createTaskActivity(s, Activity(args.id, caller, "deleted", None))
           s2 == deleteTask(s1, args.id)
       IN Return(s2, [success |-> TRUE],
                 <<"auth", "limit", "get", "log", "delete">>, "deleteTask")

\* a variant that goes on after the limiter has refused
tasks_deleteCompleted_unlimited(s, t, caller, rl, args) ==
  IF caller = NoUser
    THEN Throw(s, Unauthenticated, <<"Not authenticated">>, <<"auth">>, NoBucket)
  ELSE LET d == deleteCompletedTasksByUser(s, caller)
       IN Return(d.db, [deletedCount |-> d.count],
                 <<"auth", "limit", "query">> \o [i \in 1..d.count |-> "delete"],
                 "deleteTask")

tasks_deleteCompleted(s, t, caller, rl, args) ==
  IF caller = NoUser
    THEN Throw(s, Unauthenticated, <<"Not authenticated">>, <<"auth">>, NoBucket)
  ELSE IF ~rl.ok
    THEN Throw(s, RateLimited, RateLimitMessage(rl), <<"auth", "limit">>, "deleteTask")
  ELSE LET d == deleteCompletedTasksByUser(s, caller)
       IN Return(d.db, [deletedCount |-> d.count],
                 <<"auth", "limit", "query">> \o [i \in 1..d.count |-> "delete"],
                 "deleteTask")

----------------------------------------------------------------------------
(* db/taskComments.ts *)

createTaskComment(s, t, args) ==
  [s EXCEPT
     !.taskComments = Insert(@, s.nextId,
                        [taskId |-> args.taskId, userId |-> args.userId,
                         content |-> args.content, updatedAt |-> t]),
     !.nextId = @ + 1]

getTaskCommentsByTask(s, taskId) ==
  Desc({i \in DOMAIN s.taskComments : s.taskComments[i].taskId = taskId})

updateTaskComment(s, t, id, args) ==
  [s EXCEPT !.taskComments[id] = [@ EXCEPT !.content = args.content, !.updatedAt = t]]

deleteTaskComment(s, id) == [s EXCEPT !.taskComments = Delete(@, {id})]

----------------------------------------------------------------------------
(* db/threads.ts *)

createThread(s, t, args) ==
  [s EXCEPT
     !.threads = Insert(@, s.nextId,
                   [userId |-> args.userId, title |-> args.title,
                    status |-> "active", lastMessageAt |-> None, updatedAt |-> t]),
     !.nextId = @ + 1]

getThreadsByUserAndStatus(s, userId, status) ==
  Desc({i \in DOMAIN s.threads :
          s.threads[i].userId = userId /\ s.threads[i].status = status})

getActiveThreadsByUser(s, userId) == getThreadsByUserAndStatus(s, userId, "active")

\* index (userId, lastMessageAt, insertion order), descending; a thread without
\* lastMessageAt sorts below every thread with one
RECURSIVE LastMessageOrder(_, _)
LastMessageOrder(s, S) ==
  IF S = {} THEN <<>>
  ELSE LET key(i) == IF s.threads[i].lastMessageAt = None
                       THEN 0 ELSE 1 + s.threads[i].lastMessageAt[1]
           m == CHOOSE i \in S :
                  \A j \in S : key(j) < key(i) \/ (key(j) = key(i) /\ j <= i)
       IN <<m>> \o LastMessageOrder(s, S \ {m})

getThreadsByUserOrderedByLastMessage(s, userId) ==
  LastMessageOrder(s, {i \in DOMAIN s.threads : s.threads[i].userId = userId})

updateThread(s, t, id, args) ==
  [s EXCEPT !.threads[id] =
     [@ EXCEPT !.title = IF args.title = None THEN @ ELSE args.title,
               !.status = IF args.status = None THEN @ ELSE args.status[1],
               !.updatedAt = t]]

updateThreadLastMessage(s, t, id, lastMessageAt) ==
  [s EXCEPT !.threads[id] =
     [@ EXCEPT !.lastMessageAt = Some(lastMessageAt), !.updatedAt = t]]

archiveThread(s, t, id) ==
  [s EXCEPT !.threads[id] = [@ EXCEPT !.status = "archived", !.updatedAt = t]]

deleteThread(s, id) == [s EXCEPT !.threads = Delete(@, {id})]

----------------------------------------------------------------------------
(* db/messages.ts *)

createMessage(s, args) ==
  [s EXCEPT
     !.messages = Insert(@, s.nextId,
                    [threadId |-> args.threadId, userId |-> args.userId,
                     role |-> args.role, content |-> args.content,
                     metadata |-> args.metadata]),
     !.nextId = @ + 1]

getMessagesByThread(s, threadId) ==
  Asc({i \in DOMAIN s.messages : s.messages[i].threadId = threadId})

getMessagesByThreadOrdered(s, threadId) ==
  Asc({i \in DOMAIN s.messages : s.messages[i].threadId = threadId})

getRecentMessagesByThread(s, threadId, limit) ==
  Take(Desc({i \in DOMAIN s.messages : s.messages[i].threadId = threadId}), limit)

\* a variant that counts the messages of the thread and deletes none
deleteMessagesByThread_none(s, threadId) ==
  [db |-> s, count |-> Len(getMessagesByThread(s, threadId))]

deleteMessagesByThread(s, threadId) ==
  LET ms == getMessagesByThread(s, threadId)
  IN [db |-> [s EXCEPT !.messages = Delete(@, Range(ms))], count |-> Len(ms)]

----------------------------------------------------------------------------
(* db/userPreferences.ts *)

DefaultPreferences(userId) ==
  [userId |-> userId, theme |-> "system", defaultView |-> "list",
   sortBy |-> "position", sortOrder |-> "asc", showCompletedTasks |-> FALSE,
   notificationsEnabled |-> TRUE]

\* a variant whose record starts with the dark theme
createUserPreferences_dark(s, t, args) ==
  [s EXCEPT
     !.userPreferences =
        Insert(@, s.nextId,
          [userId |-> args.userId, theme |-> "dark", defaultView |-> "list",
           sortBy |-> "position", sortOrder |-> "asc",
           showCompletedTasks |-> FALSE, notificationsEnabled |-> TRUE,
           updatedAt |-> t]),
     !.nextId = @ + 1]

createUserPreferences(s, t, args) ==
  [s EXCEPT
     !.userPreferences =
        Insert(@, s.nextId,
          [userId |-> args.userId, theme |-> "system", defaultView |-> "list",
           sortBy |-> "position", sortOrder |-> "asc",
           showCompletedTasks |-> FALSE, notificationsEnabled |-> TRUE,
           updatedAt |-> t]),
     !.nextId = @ + 1]

\* a variant whose lookup never finds a record
getUserPreferencesByUser_none(s, userId) == 0

\* .first() on the by_user index: the oldest record of the user, 0 when none
getUserPreferencesByUser(s, userId) ==
  LET mine == {i \in DOMAIN s.userPreferences : s.userPreferences[i].userId = userId}
  IN IF mine = {} THEN 0 ELSE Asc(mine)[1]

getOrCreateUserPreferences(s, t, userId) ==
  LET existing == getUserPreferencesByUser(s, userId)
  IN IF existing # 0
       THEN [db |-> s, id |-> existing, created |-> FALSE]
       ELSE [db |-> createUserPreferences(s, t, [userId |-> userId]),
             id |-> s.nextId, created |-> TRUE]

updateUserPreferences(s, t, id, args) ==
  [s EXCEPT !.userPreferences[id] =
     [@ EXCEPT
        !.theme = IF args.theme = None THEN @ ELSE args.theme[1],
        !.defaultView = IF args.defaultView = None THEN @ ELSE args.defaultView[1],
        !.sortBy = IF args.sortBy = None THEN @ ELSE args.sortBy[1],
        !.sortOrder = IF args.sortOrder = None THEN @ ELSE args.sortOrder[1],
        !.showCompletedTasks =
           IF args.showCompletedTasks = None THEN @ ELSE args.showCompletedTasks[1],
        !.notificationsEnabled =
           IF args.notificationsEnabled = None THEN @ ELSE args.notificationsEnabled[1],
        !.updatedAt = t]]

----------------------------------------------------------------------------
(* endpoints/tasks.ts: queries *)

tasks_list(s, t, caller, args) ==
  IF caller = NoUser
    THEN Throw(s, Unauthenticated, <<"Not authenticated">>, <<"auth">>, NoBucket)
  ELSE Return(s, getTasksByUser(s, caller), <<"auth", "query">>, NoBucket)

\* a variant that answers without looking at the identity
tasks_listByStatus_public(s, t, caller, args) ==
  Return(s, getTasksByUserAndStatus(s, caller, args.status), <<"query">>, NoBucket)

tasks_listByStatus(s, t, caller, args) ==
  IF caller = NoUser
    THEN Throw(s, Unauthenticated, <<"Not authenticated">>, <<"auth">>, NoBucket)
  ELSE Return(s, getTasksByUserAndStatus(s, caller, args.status),
              <<"auth", "query">>, NoBucket)

\* index (userId, position, insertion order), ascending
RECURSIVE PositionOrder(_, _)
PositionOrder(s, S) ==
  IF S = {} THEN <<>>
  ELSE LET m == CHOOSE i \in S :
                  \A j \in S : \/ s.tasks[i].position < s.tasks[j].position
                               \/ (s.tasks[i].position = s.tasks[j].position /\ i <= j)
       IN <<m>> \o PositionOrder(s, S \ {m})

getTasksByUserAndPosition(s, userId) ==
  PositionOrder(s, {i \in DOMAIN s.tasks : s.tasks[i].userId = userId})

tasks_listByPosition(s, t, caller, args) ==
  IF caller = NoUser
    THEN Throw(s, Unauthenticated, <<"Not authenticated">>, <<"auth">>, NoBucket)
  ELSE Return(s, getTasksByUserAndPosition(s, caller), <<"auth", "query">>, NoBucket)

tasks_get(s, t, caller, args) ==
  IF caller = NoUser
    THEN Throw(s, Unauthenticated, <<"Not authenticated">>, <<"auth">>, NoBucket)
  ELSE IF args.id \notin DOMAIN s.tasks
    THEN Throw(s, NotFound, <<"Task not found">>, <<"auth", "get">>, NoBucket)
  ELSE IF s.tasks[args.id].userId # caller
    THEN Throw(s, Unauthorized, <<"Not authorized to view this task">>,
               <<"auth", "get">>, NoBucket)
  ELSE Return(s, <<args.id>>, <<"auth", "get">>, NoBucket)

tasks_listOverdue(s, t, caller, args) ==
  IF caller = NoUser
    THEN Throw(s, Unauthenticated, <<"Not authenticated">>, <<"auth">>, NoBucket)
  ELSE Return(s, getOverdueTasksByUser(s, caller, t), <<"auth", "query">>, NoBucket)

\* Math.round(x / y * 100) for integers x >= 0, y > 0: halves round up
RoundPercent(x, y) == (200 * x + y) \div (2 * y)

tasks_getStats(s, t, caller, args) ==
  IF caller = NoUser
    THEN Throw(s, Unauthenticated, <<"Not authenticated">>, <<"auth">>, NoBucket)
  ELSE LET pending == getTaskCountByUserAndStatus(s, caller, "pending")
           inProgress == getTaskCountByUserAndStatus(s, caller, "in_progress")
           completed == getTaskCountByUserAndStatus(s, caller, "completed")
           overdue == getOverdueTasksByUser(s, caller, t)
           total == pending + inProgress + completed
       IN Return(s,
            [total |-> total, pending |-> pending, inProgress |-> inProgress,
             completed |-> completed, overdue |-> Len(overdue),
             completionRate |-> IF total > 0 THEN RoundPercent(completed, total) ELSE 0],
            <<"auth", "query", "query", "query", "query">>, NoBucket)

----------------------------------------------------------------------------
(* endpoints/activity.ts *)

activity_listByTask(s, t, caller, args) ==
  IF caller = NoUser
    THEN Throw(s, Unauthenticated, <<"Not authenticated">>, <<"auth">>, NoBucket)
  ELSE IF args.taskId \notin DOMAIN s.tasks
    THEN Throw(s, NotFound, <<"Task not found">>, <<"auth", "get">>, NoBucket)
  ELSE IF s.tasks[args.taskId].userId # caller
    THEN Throw(s, Unauthorized, <<"Not authorized to view activity for this task">>,
               <<"auth", "get">>, NoBucket)
  ELSE Return(s, getTaskActivityByTaskAndTime(s, args.taskId, args.limit),
              <<"auth", "get", "query">>, NoBucket)

activity_listRecent(s, t, caller, args) ==
  IF caller = NoUser
    THEN Throw(s, Unauthenticated, <<"Not authenticated">>, <<"auth">>, NoBucket)
  ELSE Return(s, getRecentActivityByUser(s, caller,
                   IF args.limit = None THEN 20 ELSE args.limit[1]),
              <<"auth", "query">>, NoBucket)

activity_get(s, t, caller, args) ==
  IF caller = NoUser
    THEN Throw(s, Unauthenticated, <<"Not authenticated">>, <<"auth">>, NoBucket)
  ELSE IF args.id \notin 1..Len(s.taskActivity)
    THEN Throw(s, NotFound, <<"Activity not found">>, <<"auth", "get">>, NoBucket)
  ELSE IF s.taskActivity[args.id].userId # caller
    THEN Throw(s, Unauthorized, <<"Not authorized to view this activity">>,
               <<"auth", "get">>, NoBucket)
  ELSE Return(s, <<args.id>>, <<"auth", "get">>, NoBucket)

----------------------------------------------------------------------------
(* endpoints/taskComments.ts *)

comments_listByTask(s, t, caller, args) ==
  IF caller = NoUser
    THEN Throw(s, Unauthenticated, <<"Not authenticated">>, <<"auth">>, NoBucket)
  ELSE IF args.taskId \notin DOMAIN s.tasks
    THEN Throw(s, NotFound, <<"Task not found">>, <<"auth", "get">>, NoBucket)
  ELSE IF s.tasks[args.taskId].userId # caller
    THEN Throw(s, Unauthorized, <<"Not authorized to view comments for this task">>,
               <<"auth", "get">>, NoBucket)
  ELSE Return(s, getTaskCommentsByTask(s, args.taskId), <<"auth", "get", "query">>, NoBucket)

comments_get(s, t, caller, args) ==
  IF caller = NoUser
    THEN Throw(s, Unauthenticated, <<"Not authenticated">>, <<"auth">>, NoBucket)
  ELSE IF args.id \notin DOMAIN s.taskComments
    THEN Throw(s, NotFound, <<"Comment not found">>, <<"auth", "get">>, NoBucket)
  ELSE IF s.taskComments[args.id].userId # caller
    THEN Throw(s, Unauthorized, <<"Not authorized to view this comment">>,
               <<"auth", "get">>, NoBucket)
  ELSE Return(s, <<args.id>>, <<"auth", "get">>, NoBucket)

comments_create(s, t, caller, rl, args) ==
  IF caller = NoUser
    THEN Throw(s, Unauthenticated, <<"Not authenticated">>, <<"auth">>, NoBucket)
  ELSE IF ~rl.ok
    THEN Throw(s, RateLimited, RateLimitMessage(rl), <<"auth", "limit">>, "createComment")
  ELSE IF args.taskId \notin DOMAIN s.tasks
    THEN Throw(s, NotFound, <<"Task not found">>, <<"auth", "limit", "get">>, "createComment")
  ELSE IF s.tasks[args.taskId].userId # caller
    THEN Throw(s, Unauthorized, <<"Not authorized to comment on this task">>,
               <<"auth", "limit", "get">>, "createComment")
  ELSE IF ~isValidCommentContent(args.content)
    THEN Throw(s, ValidationFailed,
               <<"Comment content must be between 1 and 1000 characters">>,
               <<"auth", "limit", "get", "validate">>, "createComment")
  ELSE Return(createTaskComment(s, t, [taskId |-> args.taskId, userId |-> caller,
                                      content |-> args.content]),
              s.nextId, <<"auth", "limit", "get", "validate", "insert">>, "createComment")

\* a variant that never compares the comment's author with the caller
comments_update_anyUser(s, t, caller, rl, args) ==
  IF caller = NoUser
    THEN Throw(s, Unauthenticated, <<"Not authenticated">>, <<"auth">>, NoBucket)
  ELSE IF ~rl.ok
    THEN Throw(s, RateLimited, RateLimitMessage(rl), <<"auth", "limit">>, "updateComment")
  ELSE IF args.id \notin DOMAIN s.taskComments
    THEN Throw(s, NotFound, <<"Comment not found">>, <<"auth", "limit", "get">>,
               "updateComment")
  ELSE IF ~isValidCommentContent(args.content)
    THEN Throw(s, ValidationFailed,
               <<"Comment content must be between 1 and 1000 characters">>,
               <<"auth", "limit", "get", "validate">>, "updateComment")
  ELSE Return(updateTaskComment(s, t, args.id, [content |-> args.content]),
              args.id, <<"auth", "limit", "get", "validate", "patch">>, "updateComment")

comments_update(s, t, caller, rl, args) ==
  IF caller = NoUser
    THEN Throw(s, Unauthenticated, <<"Not authenticated">>, <<"auth">>, NoBucket)
  ELSE IF ~rl.ok
    THEN Throw(s, RateLimited, RateLimitMessage(rl), <<"auth", "limit">>, "updateComment")
  ELSE IF args.id \notin DOMAIN s.taskComments
    THEN Throw(s, NotFound, <<"Comment not found">>, <<"auth", "limit", "get">>,
               "updateComment")
  ELSE IF s.taskComments[args.id].userId # caller
    THEN Throw(s, Unauthorized, <<"Not authorized to update this comment">>,
               <<"auth", "limit", "get">>, "updateComment")
  ELSE IF ~isValidCommentContent(args.content)
    THEN Throw(s, ValidationFailed,
               <<"Comment content must be between 1 and 1000 characters">>,
               <<"auth", "limit", "get", "validate">>, "updateComment")
  ELSE Return(updateTaskComment(s, t, args.id, [content |-> args.content]),
              args.id, <<"auth", "limit", "get", "validate", "patch">>, "updateComment")

comments_remove(s, t, caller, rl, args) ==
  IF caller = NoUser
    THEN Throw(s, Unauthenticated, <<"Not authenticated">>, <<"auth">>, NoBucket)
  ELSE IF ~rl.ok
    THEN Throw(s, RateLimited, RateLimitMessage(rl), <<"auth", "limit">>, "deleteComment")
  ELSE IF args.id \notin DOMAIN s.taskComments
    THEN Throw(s, NotFound, <<"Comment not found">>, <<"auth", "limit", "get">>,
               "deleteComment")
  ELSE IF s.taskComments[args.id].userId # caller
    THEN Throw(s, Unauthorized, <<"Not authorized to delete this comment">>,
               <<"auth", "limit", "get">>, "deleteComment")
  ELSE Return(deleteTaskComment(s, args.id), [success |-> TRUE],
              <<"auth", "limit", "get", "delete">>, "deleteComment")

----------------------------------------------------------------------------
(* endpoints/agent.ts *)

agent_listThreads(s, t, caller, args) ==
  IF caller = NoUser
    THEN Throw(s, Unauthenticated, <<"Not authenticated">>, <<"auth">>, NoBucket)
  ELSE Return(s, getThreadsByUserOrderedByLastMessage(s, caller),
              <<"auth", "query">>, NoBucket)

agent_listActiveThreads(s, t, caller, args) ==
  IF caller = NoUser
    THEN Throw(s, Unauthenticated, <<"Not authenticated">>, <<"auth">>, NoBucket)
  ELSE Return(s, getActiveThreadsByUser(s, caller), <<"auth", "query">>, NoBucket)

agent_getThread(s, t, caller, args) ==
  IF caller = NoUser
    THEN Throw(s, Unauthenticated, <<"Not authenticated">>, <<"auth">>, NoBucket)
  ELSE IF args.threadId \notin DOMAIN s.threads
    THEN Throw(s, NotFound, <<"Thread not found">>, <<"auth", "get">>, NoBucket)
  ELSE IF s.threads[args.threadId].userId # caller
    THEN Throw(s, Unauthorized, <<"Not authorized to view this thread">>,
               <<"auth", "get">>, NoBucket)
  ELSE Return(s, <<args.threadId>>, <<"auth", "get">>, NoBucket)

agent_listMessages(s, t, caller, args) ==
  IF caller = NoUser
    THEN Throw(s, Unauthenticated, <<"Not authenticated">>, <<"auth">>, NoBucket)
  ELSE IF args.threadId \notin DOMAIN s.threads
    THEN Throw(s, NotFound, <<"Thread not found">>, <<"auth", "get">>, NoBucket)
  ELSE IF s.threads[args.threadId].userId # caller
    THEN Throw(s, Unauthorized, <<"Not authorized to view messages in this thread">>,
               <<"auth", "get">>, NoBucket)
  ELSE Return(s, getMessagesByThreadOrdered(s, args.threadId),
              <<"auth", "get", "query">>, NoBucket)

agent_listRecentMessages(s, t, caller, args) ==
  IF caller = NoUser
    THEN Throw(s, Unauthenticated, <<"Not authenticated">>, <<"auth">>, NoBucket)
  ELSE IF args.threadId \notin DOMAIN s.threads
    THEN Throw(s, NotFound, <<"Thread not found">>, <<"auth", "get">>, NoBucket)
  ELSE IF s.threads[args.threadId].userId # caller
    THEN Throw(s, Unauthorized, <<"Not authorized to view messages in this thread">>,
               <<"auth", "get">>, NoBucket)
  ELSE Return(s, getRecentMessagesByThread(s, args.threadId,
                   IF args.limit = None THEN 50 ELSE args.limit[1]),
              <<"auth", "get", "query">>, NoBucket)

agent_createThread(s, t, caller, rl, args) ==
  IF caller = NoUser
    THEN Throw(s, Unauthenticated, <<"Not authenticated">>, <<"auth">>, NoBucket)
  ELSE IF ~rl.ok
    THEN Throw(s, RateLimited, RateLimitMessage(rl), <<"auth", "limit">>, "createThread")
  ELSE IF Truthy(args.title) /\ ~isValidThreadTitle(args.title[1])
    THEN Throw(s, ValidationFailed, <<"Thread title must be max 100 characters">>,
               <<"auth", "limit", "validate">>, "createThread")
  ELSE Return(createThread(s, t, [userId |-> caller, title |-> args.title]),
              s.nextId, <<"auth", "limit", "validate", "insert">>, "createThread")

agent_updateThread(s, t, caller, rl, args) ==
  IF caller = NoUser
    THEN Throw(s, Unauthenticated, <<"Not authenticated">>, <<"auth">>, NoBucket)
  ELSE IF args.threadId \notin DOMAIN s.threads
    THEN Throw(s, NotFound, <<"Thread not found">>, <<"auth", "get">>, NoBucket)
  ELSE IF s.threads[args.threadId].userId # caller
    THEN Throw(s, Unauthorized, <<"Not authorized to update this thread">>,
               <<"auth", "get">>, NoBucket)
  ELSE IF Truthy(args.title) /\ ~isValidThreadTitle(args.title[1])
    THEN Throw(s, ValidationFailed, <<"Thread title must be max 100 characters">>,
               <<"auth", "get", "validate">>, NoBucket)
  ELSE Return(updateThread(s, t, args.threadId,
                           [title |-> args.title, status |-> args.status]),
              args.threadId, <<"auth", "get", "validate", "patch">>, NoBucket)

agent_archiveThread(s, t, caller, rl, args) ==
  IF caller = NoUser
    THEN Throw(s, Unauthenticated, <<"Not authenticated">>, <<"auth">>, NoBucket)
  ELSE IF args.threadId \notin DOMAIN s.threads
    THEN Throw(s, NotFound, <<"Thread not found">>, <<"auth", "get">>, NoBucket)
  ELSE IF s.threads[args.threadId].userId # caller
    THEN Throw(s, Unauthorized, <<"Not authorized to archive this thread">>,
               <<"auth", "get">>, NoBucket)
  ELSE Return(archiveThread(s, t, args.threadId), [success |-> TRUE],
              <<"auth", "get", "patch">>, NoBucket)

agent_deleteThread(s, t, caller, rl, args) ==
  IF caller = NoUser
    THEN Throw(s, Unauthenticated, <<"Not authenticated">>, <<"auth">>, NoBucket)
  ELSE IF args.threadId \notin DOMAIN s.threads
    THEN Throw(s, NotFound, <<"Thread not found">>, <<"auth", "get">>, NoBucket)
  ELSE IF s.threads[args.threadId].userId # caller
    THEN Throw(s, Unauthorized, <<"Not authorized to delete this thread">>,
               <<"auth", "get">>, NoBucket)
  ELSE LET d == deleteMessagesByThread(s, args.threadId)
       IN Return(deleteThread(d.db, args.threadId), [success |-> TRUE],
                 <<"auth", "get", "query">> \o [i \in 1..d.count |-> "delete"]
                   \o <<"delete">>, NoBucket)

\* a variant that validates the content before it fetches the thread
agent_sendMessage_validateFirst(s, t, caller, rl, args) ==
  IF caller = NoUser
    THEN Throw(s, Unauthenticated, <<"Not authenticated">>, <<"auth">>, NoBucket)
  ELSE IF ~rl.ok
    THEN Throw(s, RateLimited, RateLimitMessage(rl), <<"auth", "limit">>, "sendMessage")
  ELSE IF ~isValidMessageContent(args.content)
    THEN Throw(s, ValidationFailed,
               <<"Message content must be between 1 and 10000 characters">>,
               <<"auth", "limit", "validate">>, "sendMessage")
  ELSE IF args.threadId \notin DOMAIN s.threads
    THEN Throw(s, NotFound, <<"Thread not found">>, <<"auth", "limit", "get">>, "sendMessage")
  ELSE IF s.threads[args.threadId].userId # caller
    THEN Throw(s, Unauthorized, <<"Not authorized to send messages in this thread">>,
               <<"auth", "limit", "get">>, "sendMessage")
  ELSE LET s1 == createMessage(s, [threadId |-> args.threadId, userId |-> caller,
                                   role |-> "user", content |-> args.content,
                                   metadata |-> None])
           s2 == updateThreadLastMessage(s1, t, args.threadId, t)
       IN Return(s2, s.nextId,
                 <<"auth", "limit", "get", "validate", "insert", "patch">>, "sendMessage")

agent_sendMessage(s, t, caller, rl, args) ==
  IF caller = NoUser
    THEN Throw(s, Unauthenticated, <<"Not authenticated">>, <<"auth">>, NoBucket)
  ELSE IF ~rl.ok
    THEN Throw(s, RateLimited, RateLimitMessage(rl), <<"auth", "limit">>, "sendMessage")
  ELSE IF args.threadId \notin DOMAIN s.threads
    THEN Throw(s, NotFound, <<"Thread not found">>, <<"auth", "limit", "get">>, "sendMessage")
  ELSE IF s.threads[args.threadId].userId # caller
    THEN Throw(s, Unauthorized, <<"Not authorized to send messages in this thread">>,
               <<"auth", "limit", "get">>, "sendMessage")
  ELSE IF ~isValidMessageContent(args.content)
    THEN Throw(s, ValidationFailed,
               <<"Message content must be between 1 and 10000 characters">>,
               <<"auth", "limit", "get", "validate">>, "sendMessage")
  ELSE LET s1 == createMessage(s, [threadId |-> args.threadId, userId |-> caller,
                                   role |-> "user", content |-> args.content,
                                   metadata |-> None])
           s2 == updateThreadLastMessage(s1, t, args.threadId, t)
       IN Return(s2, s.nextId,
                 <<"auth", "limit", "get", "validate", "insert", "patch">>, "sendMessage")

\* a variant that leaves the thread's lastMessageAt alone
agent_storeAssistantMessage_noTouch(s, t, caller, rl, args) ==
  IF caller = NoUser
    THEN Throw(s, Unauthenticated, <<"Not authenticated">>, <<"auth">>, NoBucket)
  ELSE IF args.threadId \notin DOMAIN s.threads
    THEN Throw(s, NotFound, <<"Thread not found">>, <<"auth", "get">>, NoBucket)
  ELSE IF s.threads[args.threadId].userId # caller
    THEN Throw(s, Unauthorized, <<"Not authorized">>, <<"auth", "get">>, NoBucket)
  ELSE LET s1 == createMessage(s, [threadId |-> args.threadId, userId |-> caller,
                                   role |-> "assistant", content |-> args.content,
                                   metadata |-> args.metadata])
       IN Return(s1, s.nextId, <<"auth", "get", "insert", "patch">>, NoBucket)

agent_storeAssistantMessage(s, t, caller, rl, args) ==
  IF caller = NoUser
    THEN Throw(s, Unauthenticated, <<"Not authenticated">>, <<"auth">>, NoBucket)
  ELSE IF args.threadId \notin DOMAIN s.threads
    THEN Throw(s, NotFound, <<"Thread not found">>, <<"auth", "get">>, NoBucket)
  ELSE IF s.threads[args.threadId].userId # caller
    THEN Throw(s, Unauthorized, <<"Not authorized">>, <<"auth", "get">>, NoBucket)
  ELSE LET s1 == createMessage(s, [threadId |-> args.threadId, userId |-> caller,
                                   role |-> "assistant", content |-> args.content,
                                   metadata |-> args.metadata])
           s2 == updateThreadLastMessage(s1, t, args.threadId, t)
       IN Return(s2, s.nextId, <<"auth", "get", "insert", "patch">>, NoBucket)

\* the placeholder reply: the user's message inside a fixed text
ReplyPrefixLen == 26
ReplySuffixLen == 64
aiResponse(message) == Str(ReplyPrefixLen + message.len + ReplySuffixLen, FALSE)

----------------------------------------------------------------------------
(* endpoints/userPreferences.ts *)

preferences_get(s, t, caller, args) ==
  IF caller = NoUser
    THEN Throw(s, Unauthenticated, <<"Not authenticated">>, <<"auth">>, NoBucket)
  ELSE LET preferences == getUserPreferencesByUser(s, caller)
       IN IF preferences = 0
            THEN Return(s, [id |-> None, doc |-> DefaultPreferences(caller)],
                        <<"auth", "query">>, NoBucket)
          ELSE Return(s, [id |-> Some(preferences),
                          doc |-> [f \in DOMAIN DefaultPreferences(caller) |->
                                     s.userPreferences[preferences][f]]],
                      <<"auth", "query">>, NoBucket)

preferences_initialize(s, t, caller, rl, args) ==
  IF caller = NoUser
    THEN Throw(s, Unauthenticated, <<"Not authenticated">>, <<"auth">>, NoBucket)
  ELSE LET existing == getUserPreferencesByUser(s, caller)
       IN IF existing # 0
            THEN Return(s, existing, <<"auth", "query">>, NoBucket)
          ELSE Return(createUserPreferences(s, t, [userId |-> caller]), s.nextId,
                      <<"auth", "query", "insert">>, NoBucket)

\* update, updateTheme and updateDefaultView differ in the fields of the patch
PreferencesPatch(s, t, caller, rl, patch) ==
  IF caller = NoUser
    THEN Throw(s, Unauthenticated, <<"Not authenticated">>, <<"auth">>, NoBucket)
  ELSE IF ~rl.ok
    THEN Throw(s, RateLimited, RateLimitMessage(rl), <<"auth", "limit">>,
               "updatePreferences")
  ELSE LET p == getOrCreateUserPreferences(s, t, caller)
       IN Return(updateUserPreferences(p.db, t, p.id, patch), p.id,
                 <<"auth", "limit", "query">>
                   \o (IF p.created THEN <<"insert", "get">> ELSE <<>>)
                   \o <<"patch">>,
                 "updatePreferences")

NoPatch ==
  [theme |-> None, defaultView |-> None, sortBy |-> None, sortOrder |-> None,
   showCompletedTasks |-> None, notificationsEnabled |-> None]

preferences_update(s, t, caller, rl, args) == PreferencesPatch(s, t, caller, rl, args)

preferences_updateTheme(s, t, caller, rl, args) ==
  PreferencesPatch(s, t, caller, rl, [NoPatch EXCEPT !.theme = Some(args.theme)])

preferences_updateDefaultView(s, t, caller, rl, args) ==
  PreferencesPatch(s, t, caller, rl, [NoPatch EXCEPT !.defaultView = Some(args.defaultView)])

----------------------------------------------------------------------------
(* endpoints/dashboard.ts *)

dashboard_summary(s, t, caller, args) ==
  IF caller = NoUser
    THEN Throw(s, Unauthenticated, <<"Not authenticated">>, <<"auth">>, NoBucket)
  ELSE LET pending == getTaskCountByUserAndStatus(s, caller, "pending")
           inProgress == getTaskCountByUserAndStatus(s, caller, "in_progress")
           completed == getTaskCountByUserAndStatus(s, caller, "completed")
           overdueTasks == getOverdueTasksByUser(s, caller, t)
           activeThreads == getActiveThreadsByUser(s, caller)
           totalTasks == pending + inProgress + completed
       IN Return(s,
            [total |-> totalTasks, pending |-> pending, inProgress |-> inProgress,
             completed |-> completed, overdue |-> Len(overdueTasks),
             completionRate |->
               IF totalTasks > 0 THEN RoundPercent(completed, totalTasks) ELSE 0,
             active |-> Len(activeThreads)],
            <<"auth", "query", "query", "query", "query", "query">>, NoBucket)

dashboard_recent(s, t, caller, args) ==
  IF caller = NoUser
    THEN Throw(s, Unauthenticated, <<"Not authenticated">>, <<"auth">>, NoBucket)
  ELSE Return(s, Take(getTasksByUser(s, caller), 10), <<"auth", "query">>, NoBucket)

dashboard_recentActivity(s, t, caller, args) ==
  IF caller = NoUser
    THEN Throw(s, Unauthenticated, <<"Not authenticated">>, <<"auth">>, NoBucket)
  ELSE Return(s, getRecentActivityByUser(s, caller, 10), <<"auth", "query">>, NoBucket)

\* Array.prototype.sort is stable: equal due dates keep the order of allTasks
RECURSIVE DueDateOrder(_, _)
DueDateOrder(s, ids) ==
  IF ids = <<>> THEN <<>>
  ELSE LET k == CHOOSE i \in 1..Len(ids) :
                  \A j \in 1..Len(ids) :
                    \/ s.tasks[ids[i]].dueDate[1] < s.tasks[ids[j]].dueDate[1]
                    \/ (s.tasks[ids[i]].dueDate[1] = s.tasks[ids[j]].dueDate[1] /\ i <= j)
       IN <<ids[k]>> \o DueDateOrder(s, SelectSeq(ids, LAMBDA x : x # ids[k]))

dashboard_upcoming(s, t, caller, args) ==
  IF caller = NoUser
    THEN Throw(s, Unauthenticated, <<"Not authenticated">>, <<"auth">>, NoBucket)
  ELSE LET allTasks == getTasksByUser(s, caller)
           upcomingTasks ==
             DueDateOrder(s, SelectSeq(allTasks, LAMBDA i :
               s.tasks[i].status # "completed" /\ TruthyNum(s.tasks[i].dueDate)))
       IN Return(s, Take(upcomingTasks, 10), <<"auth", "query">>, NoBucket)

\* sorted by createdAt descending, which is the order of allTasks
dashboard_highPriority(s, t, caller, args) ==
  IF caller = NoUser
    THEN Throw(s, Unauthenticated, <<"Not authenticated">>, <<"auth">>, NoBucket)
  ELSE LET allTasks == getTasksByUser(s, caller)
           highPriorityTasks ==
             SelectSeq(allTasks, LAMBDA i :
               s.tasks[i].priority = "high" /\ s.tasks[i].status # "completed")
       IN Return(s, Take(highPriorityTasks, 10), <<"auth", "query">>, NoBucket)

\* the clock of the model stays far inside the 24 hour window, so every task
\* counts as created today and this week
dashboard_productivityStats(s, t, caller, args) ==
  IF caller = NoUser
    THEN Throw(s, Unauthenticated, <<"Not authenticated">>, <<"auth">>, NoBucket)
  ELSE LET allTasks == getTasksByUser(s, caller)
           done == Len(SelectSeq(allTasks, LAMBDA i : TruthyNum(s.tasks[i].completedAt)))
       IN Return(s,
            [createdToday |-> Len(allTasks), completedToday |-> done,
             createdThisWeek |-> Len(allTasks), completedThisWeek |-> done],
            <<"auth", "query">>, NoBucket)

----------------------------------------------------------------------------
(* The state machine *)

Idle ==
  [op |-> "none", caller |-> NoUser, limiter |-> Allow, args |-> <<>>, err |-> OK,
   msg |-> <<>>,
   steps |-> <<>>, bucket |-> NoBucket, result |-> <<>>]

NoChat == [pc |-> "idle"]

Init ==
  /\ tasks = <<>>
  /\ taskActivity = <<>>
  /\ taskComments = <<>>
  /\ threads = <<>>
  /\ messages = <<>>
  /\ userPreferences = <<>>
  /\ nextId = 1
  /\ now = 1
  /\ chatRun = NoChat
  /\ last = Idle

\* what a call was given (limiter: the answer the rate limiter has for it) and
\* what came of it
Outcome(op, caller, rl, args, out) ==
  [op |-> op, caller |-> caller, limiter |-> rl, args |-> args, err |-> out.err,
   msg |-> out.msg,
   steps |-> out.steps, bucket |-> out.bucket, result |-> out.result]

\* commit the transaction of a handler; ids and the activity log stay in the bounds
Commit(out) ==
  /\ out.db.nextId <= MaxIds + 1
  /\ Len(out.db.taskActivity) <= MaxActivity
  /\ tasks' = out.db.tasks
  /\ taskActivity' = out.db.taskActivity
  /\ taskComments' = out.db.taskComments
  /\ threads' = out.db.threads
  /\ messages' = out.db.messages
  /\ userPreferences' = out.db.userPreferences
  /\ nextId' = out.db.nextId

\* a request arrives when the response to the one before has been taken
Call(op, caller, rl, args, out) ==
  /\ last = Idle
  /\ Commit(out)
  /\ last' = Outcome(op, caller, rl, args, out)
  /\ UNCHANGED <<now, chatRun>>

\* the caller takes the response
Respond ==
  /\ last # Idle
  /\ last' = Idle
  /\ UNCHANGED <<tables, nextId, now, chatRun>>

\* Date.now() moves on between calls
Tick ==
  /\ last = Idle
  /\ now < MaxTime
  /\ now' = now + 1
  /\ last' = Idle
  /\ UNCHANGED <<tables, nextId, chatRun>>

TasksCreate(caller, rl, args) ==
  Call("tasks.create", caller, rl, args, tasks_create(Store, now, caller, rl, args))

TasksUpdate(caller, rl, args) ==
  Call("tasks.update", caller, rl, args, tasks_update(Store, now, caller, rl, args))

TasksComplete(caller, rl, args) ==
  Call("tasks.complete", caller, rl, args, tasks_complete(Store, now, caller, rl, args))

TasksReorder(caller, rl, args) ==
  \E s2 \in batchUpdateTaskPositions(Store, now,
              IF FirstBad(Store, caller, args.updates, 1) = 0 THEN args.updates ELSE <<>>) :
    Call("tasks.reorder", caller, rl, args, tasks_reorder(Store, now, caller, rl, args, s2))

TasksRemove(caller, rl, args) ==
  Call("tasks.remove", caller, rl, args, tasks_remove(Store, now, caller, rl, args))

TasksDeleteCompleted(caller, rl) ==
  Call("tasks.deleteCompleted", caller, rl, <<>>,
       tasks_deleteCompleted(Store, now, caller, rl, <<>>))

TasksList(caller) ==
  Call("tasks.list", caller, Allow, <<>>, tasks_list(Store, now, caller, <<>>))

TasksListByStatus(caller, args) ==
  Call("tasks.listByStatus", caller, Allow, args, tasks_listByStatus(Store, now, caller, args))

TasksListByPosition(caller) ==
  Call("tasks.listByPosition", caller, Allow, <<>>, tasks_listByPosition(Store, now, caller, <<>>))

TasksGet(caller, args) ==
  Call("tasks.get", caller, Allow, args, tasks_get(Store, now, caller, args))

TasksListOverdue(caller) ==
  Call("tasks.listOverdue", caller, Allow, <<>>, tasks_listOverdue(Store, now, caller, <<>>))

TasksGetStats(caller) ==
  Call("tasks.getStats", caller, Allow, <<>>, tasks_getStats(Store, now, caller, <<>>))

ActivityListByTask(caller, args) ==
  Call("activity.listByTask", caller, Allow, args, activity_listByTask(Store, now, caller, args))

ActivityListRecent(caller, args) ==
  Call("activity.listRecent", caller, Allow, args, activity_listRecent(Store, now, caller, args))

ActivityGet(caller, args) ==
  Call("activity.get", caller, Allow, args, activity_get(Store, now, caller, args))

CommentsListByTask(caller, args) ==
  Call("comments.listByTask", caller, Allow, args, comments_listByTask(Store, now, caller, args))

CommentsGet(caller, args) ==
  Call("comments.get", caller, Allow, args, comments_get(Store, now, caller, args))

CommentsCreate(caller, rl, args) ==
  Call("comments.create", caller, rl, args, comments_create(Store, now, caller, rl, args))

CommentsUpdate(caller, rl, args) ==
  Call("comments.update", caller, rl, args, comments_update(Store, now, caller, rl, args))

CommentsRemove(caller, rl, args) ==
  Call("comments.remove", caller, rl, args, comments_remove(Store, now, caller, rl, args))

AgentListThreads(caller) ==
  Call("agent.listThreads", caller, Allow, <<>>, agent_listThreads(Store, now, caller, <<>>))

AgentListActiveThreads(caller) ==
  Call("agent.listActiveThreads", caller, Allow, <<>>,
       agent_listActiveThreads(Store, now, caller, <<>>))

AgentGetThread(caller, args) ==
  Call("agent.getThread", caller, Allow, args, agent_getThread(Store, now, caller, args))

AgentListMessages(caller, args) ==
  Call("agent.listMessages", caller, Allow, args, agent_listMessages(Store, now, caller, args))

AgentListRecentMessages(caller, args) ==
  Call("agent.listRecentMessages", caller, Allow, args,
       agent_listRecentMessages(Store, now, caller, args))

AgentCreateThread(caller, rl, args) ==
  Call("agent.createThread", caller, rl, args, agent_createThread(Store, now, caller, rl, args))

AgentUpdateThread(caller, rl, args) ==
  Call("agent.updateThread", caller, rl, args, agent_updateThread(Store, now, caller, rl, args))

AgentArchiveThread(caller, rl, args) ==
  Call("agent.archiveThread", caller, rl, args, agent_archiveThread(Store, now, caller, rl, args))

AgentDeleteThread(caller, rl, args) ==
  Call("agent.deleteThread", caller, rl, args, agent_deleteThread(Store, now, caller, rl, args))

AgentSendMessage(caller, rl, args) ==
  Call("agent.sendMessage", caller, rl, args, agent_sendMessage(Store, now, caller, rl, args))

AgentStoreAssistantMessage(caller, rl, args) ==
  Call("agent.storeAssistantMessage", caller, rl, args,
       agent_storeAssistantMessage(Store, now, caller, rl, args))

\* chat is an action: each runMutation and runQuery is a transaction of its own,
\* and other calls run between them
ChatSend(caller, rl, args) ==
  LET out == agent_sendMessage(Store, now, caller, rl,
                               [threadId |-> args.threadId, content |-> args.message])
  IN /\ chatRun.pc = "idle"
     /\ last = Idle
     /\ Commit(out)
     /\ chatRun' = IF out.err = OK
                     THEN [pc |-> "history", caller |-> caller, args |-> args,
                           userMessageId |-> out.result]
                     ELSE NoChat
     /\ last' = Outcome(IF out.err = OK THEN "agent.chat:sendMessage" ELSE "agent.chat",
                        caller, rl, args, out)
     /\ UNCHANGED now

ChatHistory ==
  LET out == agent_listMessages(Store, now, chatRun.caller,
                                [threadId |-> chatRun.args.threadId])
  IN /\ chatRun.pc = "history"
     /\ last = Idle
     /\ Commit(out)
     /\ chatRun' = IF out.err = OK THEN [chatRun EXCEPT !.pc = "store"] ELSE NoChat
     /\ last' = Outcome(IF out.err = OK THEN "agent.chat:listMessages" ELSE "agent.chat",
                        chatRun.caller, Allow, chatRun.args, out)
     /\ UNCHANGED now

ChatStore ==
  LET out == agent_storeAssistantMessage(Store, now, chatRun.caller, Allow,
               [threadId |-> chatRun.args.threadId,
                content |-> aiResponse(chatRun.args.message),
                metadata |-> Some("placeholder")])
  IN /\ chatRun.pc = "store"
     /\ last = Idle
     /\ Commit(out)
     /\ chatRun' = NoChat
     /\ last' = Outcome("agent.chat", chatRun.caller, Allow, chatRun.args,
                  IF out.err = OK
                    THEN [out EXCEPT !.result =
                            [userMessageId |-> chatRun.userMessageId,
                             assistantMessageId |-> out.result]]
                    ELSE out)
     /\ UNCHANGED now

PreferencesGet(caller) ==
  Call("preferences.get", caller, Allow, <<>>, preferences_get(Store, now, caller, <<>>))

PreferencesInitialize(caller, rl) ==
  Call("preferences.initialize", caller, rl, <<>>,
       preferences_initialize(Store, now, caller, rl, <<>>))

PreferencesUpdate(caller, rl, args) ==
  Call("preferences.update", caller, rl, args, preferences_update(Store, now, caller, rl, args))

PreferencesUpdateTheme(caller, rl, args) ==
  Call("preferences.updateTheme", caller, rl, args,
       preferences_updateTheme(Store, now, caller, rl, args))

PreferencesUpdateDefaultView(caller, rl, args) ==
  Call("preferences.updateDefaultView", caller, rl, args,
       preferences_updateDefaultView(Store, now, caller, rl, args))

DashboardSummary(caller) ==
  Call("dashboard.summary", caller, Allow, <<>>, dashboard_summary(Store, now, caller, <<>>))

DashboardRecent(caller) ==
  Call("dashboard.recent", caller, Allow, <<>>, dashboard_recent(Store, now, caller, <<>>))

DashboardRecentActivity(caller) ==
  Call("dashboard.recentActivity", caller, Allow, <<>>,
       dashboard_recentActivity(Store, now, caller, <<>>))

DashboardUpcoming(caller) ==
  Call("dashboard.upcoming", caller, Allow, <<>>, dashboard_upcoming(Store, now, caller, <<>>))

DashboardHighPriority(caller) ==
  Call("dashboard.highPriority", caller, Allow, <<>>,
       dashboard_highPriority(Store, now, caller, <<>>))

DashboardProductivityStats(caller) ==
  Call("dashboard.productivityStats", caller, Allow, <<>>,
       dashboard_productivityStats(Store, now, caller, <<>>))

----------------------------------------------------------------------------
(* Inputs *)

RetryAfters == {2000}
RLAnswers == {Allow} \cup {Deny(ms) : ms \in RetryAfters}

Ids == 1..MaxIds

GoodTitle == Str(8, FALSE)
EmptyTitle == Str(0, TRUE)

CreateArgs(titles, priorities) ==
  [title : titles, description : {None}, priority : priorities,
   dueDate : {None}, tags : {None}]

UpdateArgs(statuses, priorities) ==
  [id : Ids, title : {None}, description : {None}, status : statuses,
   priority : priorities, dueDate : {None}, tags : {None}]

Positions == {-1, 4}
ReorderEntries == [id : Ids, position : Positions]
ReorderOne == [updates : {<<e>> : e \in ReorderEntries}]
ReorderTwo == [updates : {<<e, f>> : e \in ReorderEntries, f \in ReorderEntries}]

GoodText == Str(5, FALSE)
EmptyText == Str(0, TRUE)

CommentCreateArgs(contents) == [taskId : Ids, content : contents]
CommentUpdateArgs(contents) == [id : Ids, content : contents]
ThreadCreateArgs == [title : {None}]
ThreadUpdateArgs == [threadId : Ids, title : {Some(GoodText)}, status : {None}]
ThreadArgs == [threadId : Ids]
MessageArgs(contents) == [threadId : Ids, content : contents]

----------------------------------------------------------------------------
(* The life cycle of a task: status, completedAt and the audit record of
   every update *)

NextLifecycle ==
  \/ Tick
  \/ Respond
  \/ \E caller \in Users :
       \/ \E args \in CreateArgs({GoodTitle}, {None}) :
            TasksCreate(caller, Allow, args)
       \/ \E args \in UpdateArgs({None} \cup {Some(x) : x \in TaskStatus},
                                 {None, Some("high")}) :
            TasksUpdate(caller, Allow, args)
       \/ \E args \in [id : Ids] : TasksComplete(caller, Allow, args)

SpecLifecycle == Init /\ [][NextLifecycle]_vars

----------------------------------------------------------------------------
(* Positions: creation at the end of the caller's list, reordering, deletion *)

NextPositions ==
  \/ Respond
  \/ \E caller \in Users :
       \/ \E args \in CreateArgs({GoodTitle}, {None}) : TasksCreate(caller, Allow, args)
       \/ \E args \in ReorderOne : TasksReorder(caller, Allow, args)
       \/ \E args \in [id : Ids] : TasksRemove(caller, Allow, args)

SpecPositions == Init /\ [][NextPositions]_vars

----------------------------------------------------------------------------
(* The audit trail of deletions *)

NextAudit ==
  \/ Respond
  \/ \E caller \in Users :
       \/ \E args \in CreateArgs({GoodTitle}, {None}) : TasksCreate(caller, Allow, args)
       \/ \E args \in [id : Ids] : TasksComplete(caller, Allow, args)
       \/ \E args \in [id : Ids] : TasksRemove(caller, Allow, args)
       \/ TasksDeleteCompleted(caller, Allow)
       \/ \E args \in [taskId : Ids, limit : {None}] : ActivityListByTask(caller, args)
       \/ \E args \in [limit : {None}] : ActivityListRecent(caller, args)

SpecAudit == Init /\ [][NextAudit]_vars

----------------------------------------------------------------------------
(* Ownership: calls on records of another user *)

NextOwnership ==
  \/ Respond
  \/ \E caller \in Users, rl \in RLAnswers :
       \/ \E args \in CreateArgs({GoodTitle}, {None}) : TasksCreate(caller, rl, args)
       \/ \E args \in ThreadCreateArgs : AgentCreateThread(caller, rl, args)
       \/ \E args \in UpdateArgs({Some("completed")}, {None}) :
            TasksUpdate(caller, rl, args)
       \/ \E args \in [id : Ids] : TasksComplete(caller, rl, args)
       \/ \E args \in [id : Ids] : TasksRemove(caller, rl, args)
       \/ \E args \in CommentCreateArgs({GoodText, EmptyText}) :
            CommentsCreate(caller, rl, args)
       \/ \E args \in CommentUpdateArgs({GoodText, EmptyText}) :
            CommentsUpdate(caller, rl, args)
       \/ \E args \in [id : Ids] : CommentsRemove(caller, rl, args)
       \/ \E args \in MessageArgs({GoodText, EmptyText}) :
            AgentSendMessage(caller, rl, args)
       \/ \E args \in ThreadUpdateArgs : AgentUpdateThread(caller, rl, args)
       \/ \E args \in ThreadArgs : AgentArchiveThread(caller, rl, args)
       \/ \E args \in ThreadArgs : AgentDeleteThread(caller, rl, args)

SpecOwnership == Init /\ [][NextOwnership]_vars

----------------------------------------------------------------------------
(* Every endpoint, called by a signed-in user and by nobody, with the rate
   limiter allowing and denying *)

ReorderFirst == [updates : {<<[id |-> i, position |-> 1]>> : i \in Ids}]
ChatArgs == [threadId : Ids, message : {GoodText}]
AssistantArgs == [threadId : Ids, content : {GoodText}, metadata : {None}]
SomeCaller == {"u1", NoUser}

NextQueries(caller) ==
  \/ TasksList(caller)
  \/ \E args \in [status : {"pending"}] : TasksListByStatus(caller, args)
  \/ TasksListByPosition(caller)
  \/ \E args \in [id : Ids] : TasksGet(caller, args)
  \/ TasksListOverdue(caller)
  \/ TasksGetStats(caller)
  \/ \E args \in [taskId : Ids, limit : {None}] : ActivityListByTask(caller, args)
  \/ \E args \in [limit : {None}] : ActivityListRecent(caller, args)
  \/ \E args \in [id : Ids] : ActivityGet(caller, args)
  \/ \E args \in [taskId : Ids] : CommentsListByTask(caller, args)
  \/ \E args \in [id : Ids] : CommentsGet(caller, args)
  \/ AgentListThreads(caller)
  \/ AgentListActiveThreads(caller)
  \/ \E args \in ThreadArgs : AgentGetThread(caller, args)
  \/ \E args \in ThreadArgs : AgentListMessages(caller, args)
  \/ \E args \in [threadId : Ids, limit : {None}] :
       AgentListRecentMessages(caller, args)
  \/ PreferencesGet(caller)
  \/ DashboardSummary(caller)
  \/ DashboardRecent(caller)
  \/ DashboardRecentActivity(caller)
  \/ DashboardUpcoming(caller)
  \/ DashboardHighPriority(caller)
  \/ DashboardProductivityStats(caller)

NextMutations(caller, rl) ==
  \/ \E args \in CreateArgs({GoodTitle}, {None}) : TasksCreate(caller, rl, args)
  \/ \E args \in UpdateArgs({None}, {None}) : TasksUpdate(caller, rl, args)
  \/ \E args \in [id : Ids] : TasksComplete(caller, rl, args)
  \/ \E args \in ReorderFirst : TasksReorder(caller, rl, args)
  \/ \E args \in [id : Ids] : TasksRemove(caller, rl, args)
  \/ TasksDeleteCompleted(caller, rl)
  \/ \E args \in CommentCreateArgs({GoodText}) : CommentsCreate(caller, rl, args)
  \/ \E args \in CommentUpdateArgs({GoodText}) : CommentsUpdate(caller, rl, args)
  \/ \E args \in [id : Ids] : CommentsRemove(caller, rl, args)
  \/ \E args \in [title : {Some(GoodText)}] : AgentCreateThread(caller, rl, args)
  \/ \E args \in ThreadUpdateArgs : AgentUpdateThread(caller, rl, args)
  \/ \E args \in ThreadArgs : AgentArchiveThread(caller, rl, args)
  \/ \E args \in ThreadArgs : AgentDeleteThread(caller, rl, args)
  \/ \E args \in MessageArgs({GoodText}) : AgentSendMessage(caller, rl, args)
  \/ \E args \in AssistantArgs : AgentStoreAssistantMessage(caller, rl, args)
  \/ \E args \in ChatArgs : ChatSend(caller, rl, args)
  \/ PreferencesInitialize(caller, rl)
  \/ \E args \in {[NoPatch EXCEPT !.theme = Some("dark")]} :
       PreferencesUpdate(caller, rl, args)
  \/ \E args \in [theme : {"dark"}] : PreferencesUpdateTheme(caller, rl, args)
  \/ \E args \in [defaultView : {"list"}] : PreferencesUpdateDefaultView(caller, rl, args)

Next ==
  \/ Respond
  \/ ChatHistory
  \/ ChatStore
  \/ \E caller \in SomeCaller :
       \/ NextQueries(caller)
       \/ \E rl \in RLAnswers : NextMutations(caller, rl)

Spec == Init /\ [][Next]_vars

----------------------------------------------------------------------------
(* Reordering in batches of one and two entries *)

NextReorder ==
  \/ Respond
  \/ \E caller \in Users :
       \/ \E args \in CreateArgs({GoodTitle}, {None}) : TasksCreate(caller, Allow, args)
       \/ \E args \in ReorderOne \cup ReorderTwo : TasksReorder(caller, Allow, args)

SpecReorder == Init /\ [][NextReorder]_vars

----------------------------------------------------------------------------
(* Statistics over tasks with and without a due date, as time passes *)

DueArgs(dueDates) ==
  [title : {GoodTitle}, description : {None}, priority : {None},
   dueDate : dueDates, tags : {None}]

NextStats ==
  \/ Tick
  \/ Respond
  \/ \E caller \in Users :
       \/ \E args \in DueArgs({None, Some(1)}) : TasksCreate(caller, Allow, args)
       \/ \E args \in UpdateArgs({Some("in_progress")}, {None}) :
            TasksUpdate(caller, Allow, args)
       \/ \E args \in [id : Ids] : TasksComplete(caller, Allow, args)
       \/ TasksGetStats(caller)

SpecStats == Init /\ [][NextStats]_vars

----------------------------------------------------------------------------
(* Field validation of create and update: titles, descriptions, due dates and
   tags inside and outside their bounds *)

LongTitle == Str(201, FALSE)
LongText == Str(2001, FALSE)
LongTag == Str(51, FALSE)
DueDates == {None, Some(0), Some(1)}

FieldArgs ==
  [title : {GoodTitle, EmptyTitle, LongTitle}, description : {None, Some(LongText)},
   priority : {None}, dueDate : DueDates, tags : {None, Some(<<LongTag>>)}]

FieldUpdateArgs ==
  [id : Ids, title : {None, Some(EmptyTitle), Some(LongTitle)},
   description : {None, Some(LongText)}, status : {None}, priority : {None},
   dueDate : DueDates, tags : {None, Some(<<LongTag>>)}]

NextValidation ==
  \/ Tick
  \/ Respond
  \/ \E args \in FieldArgs : TasksCreate("u1", Allow, args)
  \/ \E args \in FieldUpdateArgs : TasksUpdate("u1", Allow, args)

SpecValidation == Init /\ [][NextValidation]_vars

----------------------------------------------------------------------------
(* Preferences: reading, initialising and updating, by two users *)

PreferencesArgs ==
  {[NoPatch EXCEPT !.sortOrder = Some("desc")],
   [NoPatch EXCEPT !.theme = Some("light"), !.notificationsEnabled = Some(FALSE)]}

NextPreferences ==
  \/ Respond
  \/ \E caller \in Users :
       \/ PreferencesGet(caller)
       \/ PreferencesInitialize(caller, Allow)
       \/ \E args \in PreferencesArgs : PreferencesUpdate(caller, Allow, args)
       \/ \E args \in [theme : {"dark", "system"}] :
            PreferencesUpdateTheme(caller, Allow, args)
       \/ \E args \in [defaultView : {"kanban"}] :
            PreferencesUpdateDefaultView(caller, Allow, args)

SpecPreferences == Init /\ [][NextPreferences]_vars

----------------------------------------------------------------------------
(* Two users side by side: each one's writes and list queries *)

NextIsolation ==
  \/ Respond
  \/ \E caller \in Users :
       \/ TasksGetStats(caller)
       \/ \E args \in CreateArgs({GoodTitle}, {None}) : TasksCreate(caller, Allow, args)
       \/ \E args \in [id : Ids] : TasksComplete(caller, Allow, args)
       \/ \E args \in ReorderFirst : TasksReorder(caller, Allow, args)
       \/ \E args \in [id : Ids] : TasksRemove(caller, Allow, args)
       \/ TasksDeleteCompleted(caller, Allow)
       \/ \E args \in CommentCreateArgs({GoodText}) : CommentsCreate(caller, Allow, args)
       \/ \E args \in [id : Ids] : CommentsRemove(caller, Allow, args)
       \/ \E args \in ThreadCreateArgs : AgentCreateThread(caller, Allow, args)
       \/ \E args \in ThreadArgs : AgentArchiveThread(caller, Allow, args)
       \/ \E args \in ThreadArgs : AgentDeleteThread(caller, Allow, args)
       \/ \E args \in MessageArgs({GoodText}) : AgentSendMessage(caller, Allow, args)
       \/ \E args \in AssistantArgs : AgentStoreAssistantMessage(caller, Allow, args)
       \/ \E args \in [theme : {"dark"}] : PreferencesUpdateTheme(caller, Allow, args)

SpecIsolation == Init /\ [][NextIsolation]_vars

----------------------------------------------------------------------------
(* Calls on an existing record for which several checks fail at once *)

TitleUpdateArgs ==
  [id : Ids, title : {None, Some(GoodTitle), Some(LongTitle)}, description : {None},
   status : {None}, priority : {None}, dueDate : {None}, tags : {None}]

NextFailures ==
  \/ Respond
  \/ \E caller \in Users :
       \/ \E args \in CreateArgs({GoodTitle}, {None}) : TasksCreate(caller, Allow, args)
       \/ \E args \in CommentCreateArgs({GoodText}) : CommentsCreate(caller, Allow, args)
       \/ \E args \in ThreadCreateArgs : AgentCreateThread(caller, Allow, args)
  \/ \E caller \in Callers, rl \in RLAnswers :
       \/ \E args \in TitleUpdateArgs : TasksUpdate(caller, rl, args)
       \/ \E args \in CommentUpdateArgs({GoodText, EmptyText}) :
            CommentsUpdate(caller, rl, args)
       \/ \E args \in MessageArgs({GoodText, EmptyText}) :
            AgentSendMessage(caller, rl, args)

SpecFailures == Init /\ [][NextFailures]_vars

----------------------------------------------------------------------------
(* Conversations: chat runs as three transactions, and messages are sent and
   threads deleted between them *)

FullMessage == Str(10000, FALSE)
OverlongMessage == Str(10001, FALSE)

NextChat ==
  \/ Tick
  \/ Respond
  \/ ChatHistory
  \/ ChatStore
  \/ \E caller \in Users :
       \/ \E args \in ThreadCreateArgs : AgentCreateThread(caller, Allow, args)
       \/ \E args \in ThreadArgs : AgentDeleteThread(caller, Allow, args)
       \/ \E args \in MessageArgs({GoodText, OverlongMessage}) :
            AgentSendMessage(caller, Allow, args)
       \/ \E args \in [threadId : Ids, content : {GoodText, OverlongMessage},
                       metadata : {None}] :
            AgentStoreAssistantMessage(caller, Allow, args)
       \/ \E rl \in RLAnswers, args \in [threadId : Ids, message : {GoodText, FullMessage}] :
            ChatSend(caller, rl, args)

SpecChat == Init /\ [][NextChat]_vars

----------------------------------------------------------------------------
(* The dashboard's upcoming tasks, over tasks with and without a due date *)

NextUpcoming ==
  \/ Respond
  \/ \E caller \in Users :
       \/ \E args \in DueArgs({None, Some(0), Some(1), Some(2)}) :
            TasksCreate(caller, Allow, args)
       \/ \E args \in [id : Ids] : TasksComplete(caller, Allow, args)
       \/ DashboardUpcoming(caller)

SpecUpcoming == Init /\ [][NextUpcoming]_vars

----------------------------------------------------------------------------
(* Creating and deleting tasks, with no reordering *)

NextNoReorder ==
  \/ Respond
  \/ \E caller \in Users :
       \/ \E args \in CreateArgs({GoodTitle}, {None}) : TasksCreate(caller, Allow, args)
       \/ \E args \in [id : Ids] : TasksComplete(caller, Allow, args)
       \/ \E args \in [id : Ids] : TasksRemove(caller, Allow, args)
       \/ TasksDeleteCompleted(caller, Allow)

SpecNoReorder == Init /\ [][NextNoReorder]_vars

----------------------------------------------------------------------------
(* Properties *)

Succeeded(op) == last.op = op /\ last.err = OK

\* the records the step appended to the activity log
Appended == SubSeq(taskActivity', Len(taskActivity) + 1, Len(taskActivity'))

\* C1: every stored task has completedAt set if and only if its status is
\* "completed", in every state reached through create, update and complete.
C1_CompletedAtIffCompleted ==
  \A i \in DOMAIN tasks :
    (tasks[i].completedAt # None) <=> (tasks[i].status = "completed")

\* the call of this step names an existing record that belongs to another user
ForeignRecord ==
  LET c == last'
  IN \/ /\ c.op \in {"tasks.update", "tasks.complete", "tasks.remove"}
        /\ c.args.id \in DOMAIN tasks
        /\ tasks[c.args.id].userId # c.caller
     \/ /\ c.op = "comments.create"
        /\ c.args.taskId \in DOMAIN tasks
        /\ tasks[c.args.taskId].userId # c.caller
     \/ /\ c.op \in {"comments.update", "comments.remove"}
        /\ c.args.id \in DOMAIN taskComments
        /\ taskComments[c.args.id].userId # c.caller
     \/ /\ c.op \in {"agent.sendMessage", "agent.updateThread",
                     "agent.archiveThread", "agent.deleteThread"}
        /\ c.args.threadId \in DOMAIN threads
        /\ threads[c.args.threadId].userId # c.caller

\* C2 as stated: a call by an authenticated user on an existing record of
\* another user fails with "Not authorized" and changes no table, whatever
\* the other arguments are.
C2_ForeignCallNotAuthorized ==
  [][ForeignRecord => (last'.err = Unauthorized /\ UNCHANGED <<tables, nextId>>)]_vars

\* C2, amended: such a call changes no table; it fails with "Not authorized",
\* except that tasks.update, tasks.complete, tasks.remove, comments
\* create/update/remove and sendMessage fail with the rate-limit error when
\* the rate limiter denies them, since they ask the limiter before they load
\* the record.
C2_ForeignCallRejected ==
  [][ForeignRecord =>
       /\ UNCHANGED <<tables, nextId>>
       /\ last'.err =
            IF /\ ~last'.limiter.ok
               /\ last'.op \in {"tasks.update", "tasks.complete", "tasks.remove",
                                "comments.create", "comments.update",
                                "comments.remove", "agent.sendMessage"}
              THEN RateLimited
              ELSE Unauthorized]_vars

\* a user edits the comment of another user, with a text that validation
\* would refuse, and the limiter lets the call pass
C2_Witness ==
  /\ last.op = "comments.update"
  /\ last.limiter.ok
  /\ last.args.id \in DOMAIN taskComments
  /\ taskComments[last.args.id].userId # last.caller
  /\ ~isValidCommentContent(last.args.content)
  /\ last.err = Unauthorized

\* C3: when the rate limiter denies a call of a signed-in user to a
\* rate-limited mutation, the call fails with the rate-limit error, whose
\* message carries the retry-after duration, and no table changes.
C3_DenialChangesNothing ==
  [][(/\ last'.op \in {"tasks.create", "tasks.update", "tasks.complete", "tasks.reorder",
                      "tasks.remove", "tasks.deleteCompleted", "comments.create",
                      "comments.update", "comments.remove", "agent.sendMessage",
                      "agent.createThread", "preferences.update",
                      "preferences.updateTheme", "preferences.updateDefaultView"}
      /\ last'.caller \in Users
      /\ ~last'.limiter.ok) =>
       /\ last'.err = RateLimited
       /\ last'.msg = <<"Rate limit exceeded. Retry after ms", last'.limiter.retryAfter>>
       /\ last'.limiter.retryAfter \in RetryAfters
       /\ UNCHANGED <<tables, nextId>>]_vars

\* a refused deleteCompleted while the caller has a completed task to delete
C3_Witness ==
  /\ last.op = "tasks.deleteCompleted"
  /\ ~last.limiter.ok
  /\ last.err = RateLimited
  /\ \E i \in DOMAIN tasks :
       tasks[i].userId = last.caller /\ tasks[i].status = "completed"

\* C4: no call changes a table unless, earlier in the same call, a named
\* rate-limit bucket was consulted and allowed the call.
C4_EveryWriteRateLimited ==
  [][tables' # tables =>
       /\ last'.bucket # NoBucket
       /\ last'.limiter.ok
       /\ \E k \in DOMAIN last'.steps :
            /\ last'.steps[k] = "limit"
            /\ \A j \in 1..k : last'.steps[j] \notin {"insert", "patch", "delete", "log"}]_vars

\* C5: a call without an identity, to any query or mutation, fails with "Not
\* authenticated" as its first and only step: the limiter is not asked and no
\* record is read or written.
C5_UnauthenticatedFirst ==
  [][(last'.op # "none" /\ last'.caller = NoUser) =>
       /\ last'.err = Unauthenticated
       /\ last'.msg = <<"Not authenticated">>
       /\ last'.steps = <<"auth">>
       /\ last'.bucket = NoBucket
       /\ UNCHANGED <<tables, nextId, chatRun>>]_vars

\* nobody asks for the removal of a task that exists, while the limiter
\* would refuse
C5_Witness ==
  /\ last.op = "tasks.remove"
  /\ last.caller = NoUser
  /\ ~last.limiter.ok
  /\ last.args.id \in DOMAIN tasks
  /\ last.err = Unauthenticated

\* C6: a successful tasks.create gives the new task the position one above the
\* highest position among the caller's tasks just before the call, 1 when the
\* caller had none; other users' tasks do not count.
C6_CreatePosition ==
  [][(last'.op = "tasks.create" /\ last'.err = OK) =>
       LET id == last'.result
           mine == {i \in DOMAIN tasks : tasks[i].userId = last'.caller}
       IN /\ id \notin DOMAIN tasks
          /\ DOMAIN tasks' = DOMAIN tasks \cup {id}
          /\ tasks'[id].userId = last'.caller
          /\ mine = {} => tasks'[id].position = 1
          /\ mine # {} =>
               /\ \A i \in mine : tasks[i].position + 1 <= tasks'[id].position
               /\ \E i \in mine : tasks[i].position + 1 = tasks'[id].position]_vars

\* a create that lands on position 0, below another user's task at position 4:
\* the caller's only task had been moved to -1
C6_Witness ==
  /\ Succeeded("tasks.create")
  /\ last.result \in DOMAIN tasks
  /\ tasks[last.result].position = 0
  /\ \E i \in DOMAIN tasks :
       tasks[i].userId # last.caller /\ tasks[i].position = 4

\* C7: a successful tasks.update whose status argument differs from the stored
\* status appends exactly one activity record for the task: "completed" when
\* the new status is "completed", else "status_changed" with {from, to}; and a
\* task that becomes completed gets completedAt = the time of the update.
C7_StatusChangeAudit ==
  [][(/\ last'.op = "tasks.update" /\ last'.err = OK
      /\ last'.args.status # None
      /\ last'.args.status[1] # tasks[last'.args.id].status) =>
       LET id == last'.args.id
           old == tasks[id].status
           new == last'.args.status[1]
       IN /\ Len(Appended) = 1
          /\ SubSeq(taskActivity', 1, Len(taskActivity)) = taskActivity
          /\ Appended[1].taskId = id
          /\ Appended[1].userId = last'.caller
          /\ new = "completed" => /\ Appended[1].action = "completed"
                                  /\ tasks'[id].completedAt = Some(now)
          /\ new # "completed" =>
               /\ Appended[1].action = "status_changed"
               /\ Appended[1].changes = Some([from |-> old, to |-> new])]_vars

\* the second call on a task, after the clock moved, reopens it or completes it
\* together with a priority change
C7_Witness ==
  /\ Succeeded("tasks.update")
  /\ now > 1
  /\ Len(taskActivity) = 3
  /\ taskActivity[2].action = "completed"
  /\ taskActivity[2].taskId = last.args.id
  /\ taskActivity[3] = Activity(last.args.id, last.caller, "status_changed",
                                Some([from |-> "completed", to |-> "pending"]))
  /\ last.args.priority = Some("high")
  /\ tasks[last.args.id].completedAt = Some(1)

\* C8: a successful tasks.update appends exactly one activity record, for the
\* effective action: "completed" only when the call moves the status from a
\* non-completed value to "completed", else "status_changed" with {from, to}
\* when the status changed, else "priority_changed" with {from, to} when the
\* priority changed, else "updated".
C8_EffectiveAction ==
  [][(last'.op = "tasks.update" /\ last'.err = OK) =>
       LET id == last'.args.id
           a == last'.args
           old == tasks[id]
           statusChanged == a.status # None /\ a.status[1] # old.status
           priorityChanged == a.priority # None /\ a.priority[1] # old.priority
       IN /\ Len(Appended) = 1
          /\ Appended[1].taskId = id
          /\ Appended[1].action =
               IF statusChanged /\ a.status[1] = "completed" THEN "completed"
               ELSE IF statusChanged THEN "status_changed"
               ELSE IF priorityChanged THEN "priority_changed"
               ELSE "updated"
          /\ (statusChanged /\ a.status[1] # "completed") =>
               Appended[1].changes = Some([from |-> old.status, to |-> a.status[1]])
          /\ (~statusChanged /\ priorityChanged) =>
               Appended[1].changes = Some([from |-> old.priority, to |-> a.priority[1]])]_vars

\* C9: after a successful tasks.remove the owner still gets the "deleted"
\* record of the task from activity.listByTask with the task's id.
C9_DeletedRecordListedByTask ==
  (/\ last.op = "activity.listByTask"
   /\ last.args.taskId \notin DOMAIN tasks
   /\ \E k \in 1..Len(taskActivity) :
        taskActivity[k] = Activity(last.args.taskId, last.caller, "deleted", None)) =>
    /\ last.err = OK
    /\ \E k \in Range(last.result) :
         taskActivity[k] = Activity(last.args.taskId, last.caller, "deleted", None)

\* C10: whenever a call removes a task from the store, the same call appends a
\* "deleted" activity record for that task.
C10_EveryDeletionLogged ==
  [][\A i \in DOMAIN tasks \ DOMAIN tasks' :
       \E k \in 1..Len(Appended) :
         Appended[k].taskId = i /\ Appended[k].action = "deleted"]_vars

\* the first entry of the batch of this step that names a missing task or a
\* task of another user, 0 when there is none
Offending ==
  LET u == last'.args.updates
      bad == {k \in DOMAIN u : \/ u[k].id \notin DOMAIN tasks
                               \/ tasks[u[k].id].userId # last'.caller}
  IN IF bad = {} THEN 0 ELSE CHOOSE k \in bad : \A j \in bad : k <= j

\* C11: a tasks.reorder whose batch names a missing task or a task of another
\* user fails ("not found" or "Not authorized", by the first such entry) and no
\* task changes, the caller's own tasks earlier in the batch included.
C11_ReorderAllOrNothing ==
  [][(last'.op = "tasks.reorder" /\ last'.caller \in Users /\ last'.limiter.ok
      /\ Offending # 0) =>
       /\ last'.err = IF last'.args.updates[Offending].id \in DOMAIN tasks
                        THEN Unauthorized ELSE NotFound
       /\ UNCHANGED <<tables, nextId>>]_vars

\* a batch of the caller's own task, asked to move, followed by a task of
\* another user
C11_Witness ==
  /\ last.op = "tasks.reorder"
  /\ Len(last.args.updates) = 2
  /\ last.args.updates[1].id \in DOMAIN tasks
  /\ last.args.updates[2].id \in DOMAIN tasks
  /\ tasks[last.args.updates[1].id].userId = last.caller
  /\ tasks[last.args.updates[2].id].userId # last.caller
  /\ tasks[last.args.updates[1].id].position # last.args.updates[1].position
  /\ last.err = Unauthorized

\* C12: in every reachable state each comment's taskId names a stored task:
\* deleting a task leaves no comment of it behind.
C12_CommentsDieWithTask ==
  \A c \in DOMAIN taskComments : taskComments[c].taskId \in DOMAIN tasks

IsPrefix(p, q) == Len(p) <= Len(q) /\ SubSeq(q, 1, Len(p)) = p

\* the activity records of one task, oldest first
RecordsOf(log, taskId) ==
  LET OfTask(a) == a.taskId = taskId IN SelectSeq(log, OfTask)

\* C13: the activity log is append-only: a step leaves the records of every
\* task as they were and may add records after them; the only exception allowed
\* is the deletion of all records of a task in the step that deletes the task.
C13_AppendOnlyLog ==
  [][\A i \in {taskActivity[k].taskId : k \in DOMAIN taskActivity} :
       \/ IsPrefix(RecordsOf(taskActivity, i), RecordsOf(taskActivity', i))
       \/ /\ i \in DOMAIN tasks
          /\ i \notin DOMAIN tasks'
          /\ RecordsOf(taskActivity', i) = <<>>]_vars

\* a task was created, updated and removed: the three records are in the log
C13_Witness ==
  /\ last.op = "tasks.remove"
  /\ last.err = OK
  /\ last.args.id \notin DOMAIN tasks
  /\ Len(taskActivity) = 3
  /\ \A k \in 1..3 : taskActivity[k].taskId = last.args.id
  /\ taskActivity[1].action = "created"
  /\ taskActivity[2].action = "updated"
  /\ taskActivity[3].action = "deleted"

Times == 1..MaxTime

CountOf(user, status) ==
  Cardinality({i \in DOMAIN tasks : tasks[i].userId = user /\ tasks[i].status = status})

\* C14 as stated: the result of tasks.getStats depends on the caller's tasks
\* only, so two calls on the same store return the same result whenever they
\* are made.
C14_StatsPure ==
  \A user \in Users : \A t1, t2 \in Times :
    tasks_getStats(Store, t1, user, <<>>).result
      = tasks_getStats(Store, t2, user, <<>>).result

\* C14, amended: two calls on the same store return the same total, pending,
\* inProgress, completed and completionRate whenever they are made (the
\* overdue count also depends on the time of the call); total is pending +
\* inProgress + completed and the number of the caller's tasks; and
\* completionRate is 100 * completed / total rounded to the nearest integer,
\* halves up, 0 when total is 0.
C14_StatsOfCallersTasks ==
  /\ \A user \in Users : \A t1, t2 \in Times :
       LET r1 == tasks_getStats(Store, t1, user, <<>>).result
           r2 == tasks_getStats(Store, t2, user, <<>>).result
       IN /\ r1.total = r2.total
          /\ r1.pending = r2.pending
          /\ r1.inProgress = r2.inProgress
          /\ r1.completed = r2.completed
          /\ r1.completionRate = r2.completionRate
  /\ (last.op = "tasks.getStats" /\ last.err = OK) =>
       LET r == last.result
           d == r.completionRate * r.total - 100 * r.completed
       IN /\ r.pending = CountOf(last.caller, "pending")
          /\ r.inProgress = CountOf(last.caller, "in_progress")
          /\ r.completed = CountOf(last.caller, "completed")
          /\ r.total = r.pending + r.inProgress + r.completed
          /\ r.total = Cardinality({i \in DOMAIN tasks : tasks[i].userId = last.caller})
          /\ r.total = 0 => r.completionRate = 0
          /\ r.total > 0 => (-r.total < 2 * d /\ 2 * d <= r.total)

\* one of the caller's two tasks is completed and the other is overdue
C14_Witness ==
  /\ last.op = "tasks.getStats"
  /\ last.err = OK
  /\ last.result.total = 2
  /\ last.result.completed = 1
  /\ last.result.completionRate = 50
  /\ last.result.overdue = 1
  /\ now = MaxTime

\* the field rules that the input of the tasks.create or tasks.update of this
\* step breaks, each named by its entry in the error message
Broken ==
  LET a == last'.args
      title == IF last'.op = "tasks.create" THEN Some(a.title) ELSE a.title
  IN (IF title # None /\ (title[1].len < 1 \/ title[1].len > 200)
        THEN {"Title must be between 1 and 200 characters"} ELSE {})
     \cup (IF a.description # None /\ a.description[1].len > 2000
            THEN {"Description must be max 2000 characters"} ELSE {})
     \cup (IF a.dueDate # None /\ a.dueDate[1] < now
            THEN {"Due date must be in the future"} ELSE {})
     \cup (IF a.tags # None
               /\ (Len(a.tags[1]) > 10 \/ \E k \in DOMAIN a.tags[1] : a.tags[1][k].len > 50)
            THEN {"Tags must be max 50 characters each, max 10 tags"} ELSE {})

\* the step is a tasks.create, or a tasks.update of a task of the caller
CreateOrUpdateOwn ==
  /\ last'.caller \in Users
  /\ last'.limiter.ok
  /\ \/ last'.op = "tasks.create"
     \/ /\ last'.op = "tasks.update"
        /\ last'.args.id \in DOMAIN tasks
        /\ tasks[last'.args.id].userId = last'.caller

\* C15: a tasks.create or tasks.update whose input breaks several field rules
\* at once fails with one validation error whose message has an entry for
\* every broken rule, and writes nothing.
C15_EveryBrokenRuleReported ==
  [][(CreateOrUpdateOwn /\ Cardinality(Broken) >= 2) =>
       /\ last'.err = ValidationFailed
       /\ Broken \subseteq Range(last'.msg)
       /\ UNCHANGED <<tables, nextId>>]_vars

\* C16: in every reachable state each stored task has a title of 1 to 200
\* characters and, when it has a description, one of at most 2000 characters.
C16_StoredFieldsInBounds ==
  \A i \in DOMAIN tasks :
    /\ tasks[i].title.len >= 1
    /\ tasks[i].title.len <= 200
    /\ tasks[i].description # None => tasks[i].description[1].len <= 2000

\* C17: a tasks.create or tasks.update that supplies a due date earlier than
\* the current time fails with the validation error "Due date must be in the
\* future", whatever the timestamp, and changes nothing.
C17_PastDueDateRejected ==
  [][(/\ CreateOrUpdateOwn
      /\ last'.args.dueDate # None
      /\ last'.args.dueDate[1] < now) =>
       /\ last'.err = ValidationFailed
       /\ "Due date must be in the future" \in Range(last'.msg)
       /\ UNCHANGED <<tables, nextId>>]_vars

\* C18: in every reachable state each stored task's position is a
\* non-negative integer, whatever positions tasks.reorder was asked for.
C18_PositionsNonNegative ==
  \A i \in DOMAIN tasks : tasks[i].position >= 0

PreferenceFields ==
  {"theme", "defaultView", "sortBy", "sortOrder", "showCompletedTasks",
   "notificationsEnabled"}

\* the default preferences of a user, as preferences.get answers them
Defaults(user) ==
  [userId |-> user, theme |-> "system", defaultView |-> "list", sortBy |-> "position",
   sortOrder |-> "asc", showCompletedTasks |-> FALSE, notificationsEnabled |-> TRUE]

PreferencesOf(table, user) == {i \in DOMAIN table : table[i].userId = user}

\* the fields the preferences update of this step supplies, None when not
Supplied(f) ==
  IF last'.op = "preferences.update" THEN last'.args[f]
  ELSE IF f \in DOMAIN last'.args THEN Some(last'.args[f]) ELSE None

C20_OnePreferencesPerUser ==
  \A user \in Users : Cardinality(PreferencesOf(userPreferences, user)) <= 1

\* both users have their record, and the last call found the caller's record
\* and patched it
C20_Witness ==
  /\ \A user \in Users : Cardinality(PreferencesOf(userPreferences, user)) = 1
  /\ last.op = "preferences.updateTheme"
  /\ last.err = OK
  /\ "insert" \notin Range(last.steps)
  /\ userPreferences[last.result].theme = "dark"
  /\ userPreferences[last.result].defaultView = "kanban"

\* the records of a table that a user owns
Owned(table, user) ==
  [i \in {j \in DOMAIN table : table[j].userId = user} |-> table[i]]

OwnedRecords(s, user) ==
  <<Owned(s.tasks, user), SelectSeq(s.taskActivity, LAMBDA a : a.userId = user),
    Owned(s.taskComments, user), Owned(s.threads, user), Owned(s.messages, user),
    Owned(s.userPreferences, user)>>

\* what the list and statistics queries answer a user at time t
QueryResults(s, t, user) ==
  <<tasks_list(s, t, user, <<>>).result,
    [status \in TaskStatus |-> tasks_listByStatus(s, t, user, [status |-> status]).result],
    tasks_listByPosition(s, t, user, <<>>).result,
    tasks_getStats(s, t, user, <<>>).result,
    [k \in 1..Len(activity_listRecent(s, t, user, [limit |-> None]).result) |->
       s.taskActivity[activity_listRecent(s, t, user, [limit |-> None]).result[k]]],
    agent_listThreads(s, t, user, <<>>).result,
    preferences_get(s, t, user, <<>>).result>>

\* C21: every record that a user's list queries return is owned by that user,
\* and a call made by another user changes no record the user owns and no
\* result of the user's list and statistics queries.
C21_QueriesIndependentOfOthers ==
  [][\A user \in Users :
       /\ \A i \in Range(tasks_list(Store, now, user, <<>>).result)
                   \cup Range(tasks_listByPosition(Store, now, user, <<>>).result)
                   \cup UNION {Range(tasks_listByStatus(Store, now, user,
                                       [status |-> st]).result) : st \in TaskStatus} :
            i \in DOMAIN tasks /\ tasks[i].userId = user
       /\ \A k \in Range(activity_listRecent(Store, now, user, [limit |-> None]).result) :
            taskActivity[k].userId = user
       /\ \A i \in Range(agent_listThreads(Store, now, user, <<>>).result) :
            i \in DOMAIN threads /\ threads[i].userId = user
       /\ preferences_get(Store, now, user, <<>>).result.doc.userId = user
       /\ (last'.caller \in Users /\ last'.caller # user) =>
            /\ OwnedRecords(Store', user) = OwnedRecords(Store, user)
            /\ QueryResults(Store', now', user) = QueryResults(Store, now, user)]_vars

\* the other user has just deleted a completed task of their own, while the
\* user has a task and an activity log
C21_Witness ==
  /\ last.op = "tasks.deleteCompleted"
  /\ last.caller = "u2"
  /\ last.err = OK
  /\ last.result.deletedCount = 1
  /\ tasks_getStats(Store, now, "u1", <<>>).result.total = 1
  /\ tasks_list(Store, now, "u1", <<>>).result # <<>>
  /\ Len(activity_listRecent(Store, now, "u1", [limit |-> None]).result) = 1

\* the table that the call of this step targets, and the id it names
TargetTable ==
  IF last'.op = "tasks.update" THEN tasks
  ELSE IF last'.op = "comments.update" THEN taskComments
  ELSE threads

TargetId == IF last'.op = "agent.sendMessage" THEN last'.args.threadId ELSE last'.args.id

\* the input of the call breaks a validation rule
InvalidInput ==
  IF last'.op = "tasks.update"
    THEN last'.args.title # None /\ last'.args.title[1].len > 200
  ELSE last'.args.content.len = 0

AddsMessage(id, doc) ==
  /\ id \notin DOMAIN messages
  /\ DOMAIN messages' = DOMAIN messages \cup {id}
  /\ \A i \in DOMAIN messages : messages'[i] = messages[i]
  /\ messages'[id].threadId = doc.threadId
  /\ messages'[id].userId = doc.userId
  /\ messages'[id].role = doc.role
  /\ messages'[id].content = doc.content

\* C23: a chat call on the caller's thread first persists the user's message
\* and sets the thread's lastMessageAt, then reads the history, synthesizes the
\* reply, persists the assistant message and sets lastMessageAt again; each of
\* the two writing steps adds exactly one message to the thread, the user
\* message before the assistant message; and when a later step fails, the
\* failing step changes nothing, so the user message is not rolled back.
C23_ChatSteps ==
  [][/\ last'.op = "agent.chat:sendMessage" =>
          /\ chatRun.pc = "idle" /\ chatRun'.pc = "history"
          /\ threads[last'.args.threadId].userId = last'.caller
          /\ AddsMessage(last'.result,
               [threadId |-> last'.args.threadId, userId |-> last'.caller,
                role |-> "user", content |-> last'.args.message])
          /\ threads'[last'.args.threadId].lastMessageAt = Some(now)
          /\ last'.steps[Len(last'.steps) - 1] = "insert"
          /\ last'.steps[Len(last'.steps)] = "patch"
     /\ last'.op = "agent.chat:listMessages" =>
          /\ chatRun.pc = "history" /\ chatRun'.pc = "store"
          /\ chatRun.userMessageId \in Range(last'.result)
          /\ UNCHANGED <<tables, nextId>>
     /\ (last'.op = "agent.chat" /\ last'.err = OK) =>
          /\ chatRun.pc = "store" /\ chatRun'.pc = "idle"
          /\ last'.result.userMessageId = chatRun.userMessageId
          /\ AddsMessage(last'.result.assistantMessageId,
               [threadId |-> last'.args.threadId, userId |-> last'.caller,
                role |-> "assistant",
                content |-> Str(ReplyPrefixLen + last'.args.message.len + ReplySuffixLen,
                                FALSE)])
          /\ threads'[last'.args.threadId].lastMessageAt = Some(now)
          /\ last'.steps[Len(last'.steps) - 1] = "insert"
          /\ last'.steps[Len(last'.steps)] = "patch"
          /\ last'.result.userMessageId \in DOMAIN messages'
          /\ messages'[last'.result.userMessageId].role = "user"
          /\ messages'[last'.result.userMessageId].threadId = last'.args.threadId
          /\ last'.result.userMessageId < last'.result.assistantMessageId
     /\ (last'.op = "agent.chat" /\ last'.err # OK) =>
          UNCHANGED <<tables, nextId>>]_vars

\* a chat has gone through: its two messages are the thread's messages, and the
\* reply was stored later than the user's message
C23_Witness ==
  /\ last.op = "agent.chat"
  /\ last.err = OK
  /\ now = 2
  /\ threads[last.args.threadId].lastMessageAt = Some(2)
  /\ getMessagesByThreadOrdered(Store, last.args.threadId)
       = <<last.result.userMessageId, last.result.assistantMessageId>>
  /\ messages[last.result.userMessageId].role = "user"
  /\ messages[last.result.assistantMessageId].role = "assistant"

\* C24: every message belongs to an existing thread; a deleted thread leaves no
\* message behind.
C24_MessagesHaveThread ==
  \A i \in DOMAIN messages : messages[i].threadId \in DOMAIN threads

\* a thread with two messages has just been deleted, messages first
C24_Witness ==
  /\ last.op = "agent.deleteThread"
  /\ last.err = OK
  /\ last.steps = <<"auth", "get", "query", "delete", "delete", "delete">>
  /\ last.args.threadId \notin DOMAIN threads
  /\ nextId = 4

\* C25: every stored message has at most 10000 characters of content.
C25_MessageContentBounded ==
  \A i \in DOMAIN messages : messages[i].content.len <= 10000

\* the caller's tasks that are not completed and have a due date
Qualifying(user) ==
  {i \in DOMAIN tasks : /\ tasks[i].userId = user
                        /\ tasks[i].status # "completed"
                        /\ tasks[i].dueDate # None}

\* C26: dashboard.upcoming answers at most 10 tasks, each the caller's, not
\* completed and with a due date, in ascending order of due date, and no
\* qualifying task it leaves out is due earlier than one it returns.
C26_UpcomingEarliestDue ==
  (last.op = "dashboard.upcoming" /\ last.err = OK) =>
    LET r == last.result
    IN /\ Len(r) <= 10
       /\ Range(r) \subseteq Qualifying(last.caller)
       /\ \A k \in 1..(Len(r) - 1) : tasks[r[k]].dueDate[1] <= tasks[r[k + 1]].dueDate[1]
       /\ \A i \in Qualifying(last.caller) \ Range(r) : \A j \in Range(r) :
            ~(tasks[i].dueDate[1] < tasks[j].dueDate[1])

\* C27: when no reorder is called, the existing tasks of one user have pairwise
\* distinct positions after any sequence of create, remove and deleteCompleted.
C27_DistinctPositions ==
  \A i, j \in DOMAIN tasks :
    (i # j /\ tasks[i].userId = tasks[j].userId) => tasks[i].position # tasks[j].position

\* a user creates a second task after a first; each has its own position
C27_Witness ==
  /\ last.op = "tasks.create"
  /\ last.err = OK
  /\ \E i \in DOMAIN tasks :
       /\ i # last.result
       /\ tasks[i].userId = last.caller
       /\ tasks[i].position = 1
       /\ tasks[last.result].position = 2

\* the positions that the batch of this step requests for a task
Requested(id) ==
  {last'.args.updates[k].position :
     k \in {m \in DOMAIN last'.args.updates : last'.args.updates[m].id = id}}

\* C28: after a successful reorder every named task has a position that the
\* batch requested for it: the requested position when the task is named once,
\* one of the requested positions when it is named more than once.
C28_ReorderedToRequested ==
  [][(last'.op = "tasks.reorder" /\ last'.err = OK) =>
       \A k \in DOMAIN last'.args.updates :
         LET id == last'.args.updates[k].id
         IN /\ id \in DOMAIN tasks'
            /\ tasks'[id].position \in Requested(id)
            /\ (Cardinality({m \in DOMAIN last'.args.updates :
                               last'.args.updates[m].id = id}) = 1
                  => tasks'[id].position = last'.args.updates[k].position)]_vars

\* a batch names one task twice with different positions, and the task ends at
\* the position of the first entry
C28_Witness ==
  /\ last.op = "tasks.reorder"
  /\ last.err = OK
  /\ Len(last.args.updates) = 2
  /\ last.args.updates[1].id = last.args.updates[2].id
  /\ last.args.updates[1].position # last.args.updates[2].position
  /\ tasks[last.args.updates[1].id].position = last.args.updates[1].position

\* the tasks that the batch of this step names
Named == {last'.args.updates[k].id : k \in DOMAIN last'.args.updates}

C30_CompleteAlways ==
  [][(last'.op = "tasks.complete" /\ last'.err = OK) =>
       LET id == last'.args.id
       IN /\ id \in DOMAIN tasks /\ tasks[id].userId = last'.caller
          /\ DOMAIN tasks' = DOMAIN tasks
          /\ tasks'[id].status = "completed"
          /\ tasks'[id].completedAt = Some(now)
          /\ [tasks'[id] EXCEPT !.status = tasks[id].status,
                                !.completedAt = tasks[id].completedAt,
                                !.updatedAt = tasks[id].updatedAt] = tasks[id]
          /\ \A i \in DOMAIN tasks \ {id} : tasks'[i] = tasks[i]
          /\ Len(taskActivity') = Len(taskActivity) + 1
          /\ SubSeq(taskActivity', 1, Len(taskActivity)) = taskActivity
          /\ taskActivity'[Len(taskActivity')].action = "completed"
          /\ taskActivity'[Len(taskActivity')].taskId = id
          /\ taskActivity'[Len(taskActivity')].userId = last'.caller]_vars

\* a task completed before has been completed again, at time 2
C30_Witness ==
  /\ last.op = "tasks.complete"
  /\ last.err = OK
  /\ now = 2
  /\ tasks[last.args.id].completedAt = Some(2)
  /\ Len(taskActivity) = 3
  /\ taskActivity[2].action = "completed" /\ taskActivity[2].taskId = last.args.id
  /\ taskActivity[3].action = "completed" /\ taskActivity[3].taskId = last.args.id

====
